---- MODULE Spec2Model ----
(***************************************************************************)
(* A model of the agent-frontmatter library: the in-memory search engine   *)
(* (AgentSearchEngine and its SearchIndex) and the validator               *)
(* (AgentParser.validate).                                                 *)
(*                                                                         *)
(* A JavaScript string is a sequence of one-character strings, an array a  *)
(* sequence, an object a record that has exactly the properties that are   *)
(* present (a property that is absent reads as undefined).  A Map or a Set  *)
(* is a sequence in insertion order, which is the order JavaScript         *)
(* iterates it in.  Metadata objects live in a heap, objs, and the engine   *)
(* stores references to them, as the code does.                            *)
(***************************************************************************)
EXTENDS Integers, Sequences, FiniteSets, TLC

VARIABLES
    objs,       \* the heap: reference -> content, for the objects the caller has
                \* changed since creating them (the others are as created)
    agents,     \* AgentSearchEngine.agents : Map<string, AgentMetadata>
    index,      \* SearchIndex.index : Map<string, Set<string>>
    documents,  \* SearchIndex.documents : Map<string, AgentMetadata>
    input,      \* the argument of the pure function under check (validate)
    last,       \* the last call made: its name, its arguments, what it returned
    ncalls      \* how many addAgent and removeAgent calls the caller has counted

vars == <<objs, agents, index, documents, input, last, ncalls>>

-----------------------------------------------------------------------------
(* Sequences *)

SeqRange(s) == {s[i] : i \in 1..Len(s)}

Min(a, b) == IF a < b THEN a ELSE b
Max(a, b) == IF a > b THEN a ELSE b

\* Array.prototype.slice(from, to) for 0 <= from and 0 <= to
Slice(s, from, to) ==
    LET lo == Min(from, Len(s))
        hi == Min(to, Len(s))
    IN IF hi <= lo THEN <<>> ELSE SubSeq(s, lo + 1, hi)

\* Array.prototype.sort(cmp), which is stable: x goes before the first
\* element that compares greater than x.  The comparator is given as the
\* table c[i, j] = cmp(s[i], s[j]) over the positions of s.
RECURSIVE InsertSorted(_, _, _)
InsertSorted(acc, i, c) ==
    IF acc = <<>> THEN <<i>>
    ELSE IF c[Head(acc), i] > 0 THEN <<i>> \o acc
    ELSE <<Head(acc)>> \o InsertSorted(Tail(acc), i, c)

RECURSIVE SortedPositions(_, _, _, _)
SortedPositions(acc, i, n, c) ==
    IF i > n THEN acc
    ELSE SortedPositions(InsertSorted(acc, i, c), i + 1, n, c)

StableSort(s, c) ==
    LET p == SortedPositions(<<>>, 1, Len(s), c)
    IN [k \in 1..Len(s) |-> s[p[k]]]

-----------------------------------------------------------------------------
(* Strings *)

UpperToLower ==
    ("A" :> "a") @@ ("B" :> "b") @@ ("C" :> "c") @@ ("D" :> "d") @@
    ("E" :> "e") @@ ("F" :> "f") @@ ("G" :> "g") @@ ("H" :> "h") @@
    ("I" :> "i") @@ ("J" :> "j") @@ ("K" :> "k") @@ ("L" :> "l") @@
    ("M" :> "m") @@ ("N" :> "n") @@ ("O" :> "o") @@ ("P" :> "p") @@
    ("Q" :> "q") @@ ("R" :> "r") @@ ("S" :> "s") @@ ("T" :> "t") @@
    ("U" :> "u") @@ ("V" :> "v") @@ ("W" :> "w") @@ ("X" :> "x") @@
    ("Y" :> "y") @@ ("Z" :> "z")

\* String.prototype.toLowerCase
ToLowerCase(s) ==
    [i \in 1..Len(s) |->
        IF s[i] \in DOMAIN UpperToLower THEN UpperToLower[s[i]] ELSE s[i]]

\* the characters the regular expression \s matches
IsSpace(c) == c \in {" ", "\t", "\n"}

\* String.prototype.split(/\s+/): the pieces between the maximal runs of
\* white space; a run at the start or at the end leaves an empty piece, and
\* the empty string splits into one empty piece.
RECURSIVE SplitFrom(_, _, _, _)
SplitFrom(s, i, cur, inRun) ==
    IF i > Len(s) THEN <<cur>>
    ELSE IF IsSpace(s[i])
         THEN IF inRun THEN SplitFrom(s, i + 1, cur, TRUE)
              ELSE <<cur>> \o SplitFrom(s, i + 1, <<>>, TRUE)
         ELSE SplitFrom(s, i + 1, Append(cur, s[i]), FALSE)

SplitWhitespace(s) == SplitFrom(s, 1, <<>>, FALSE)

\* Array.prototype.join(' ')
RECURSIVE JoinSpace(_)
JoinSpace(parts) ==
    IF parts = <<>> THEN <<>>
    ELSE IF Len(parts) = 1 THEN parts[1]
    ELSE parts[1] \o <<" ">> \o JoinSpace(Tail(parts))

\* String.prototype.includes
Includes(s, sub) ==
    \E i \in 0..(Len(s) - Len(sub)) :
        \A j \in 1..Len(sub) : s[i + j] = sub[j]

\* Array.prototype.includes
ArrayIncludes(a, v) == \E i \in 1..Len(a) : a[i] = v

-----------------------------------------------------------------------------
(* Objects: a property that is absent reads as undefined *)

Has(o, k) == k \in DOMAIN o

\* o[k] || dflt for a string property: undefined and '' are falsy
StrOr(o, k, dflt) == IF Has(o, k) /\ o[k] # <<>> THEN o[k] ELSE dflt

\* o[k] || [] for an array property
ArrOr(o, k) == IF Has(o, k) THEN o[k] ELSE <<>>

-----------------------------------------------------------------------------
(* Map<K, V> and Set<K> in insertion order *)

MapKeys(m) == [i \in 1..Len(m) |-> m[i].key]
MapValues(m) == [i \in 1..Len(m) |-> m[i].val]
MapHas(m, k) == \E i \in 1..Len(m) : m[i].key = k
MapGet(m, k) == m[CHOOSE i \in 1..Len(m) : m[i].key = k].val

\* Map.prototype.set: a key that is present keeps its place
MapSet(m, k, v) ==
    IF MapHas(m, k)
    THEN [i \in 1..Len(m) |-> IF m[i].key = k THEN [key |-> k, val |-> v] ELSE m[i]]
    ELSE Append(m, [key |-> k, val |-> v])

\* Map.prototype.delete
MapDelete(m, k) == LET Keep(e) == e.key # k IN SelectSeq(m, Keep)

\* Set.prototype.add and Set.prototype.delete
SetAdd(s, x) == IF ArrayIncludes(s, x) THEN s ELSE Append(s, x)
SetDelete(s, x) == LET Keep(e) == e # x IN SelectSeq(s, Keep)

-----------------------------------------------------------------------------
(* The metadata objects and the ids the environment registers them under *)

NoProps == [k \in {} |-> k]

Str_a == <<"a">>
Str_b == <<"b">>
Str_C == <<"C">>
Str_x == <<"x">>
Str_y == <<"y">>
Str_bug == <<"b", "u", "g">>
Str_zap == <<"z", "a", "p">>
Str_c1 == <<"c", "1">>
Str_c2 == <<"c", "2">>
Str_ts == <<"t", "s">>
Str_js == <<"j", "s">>
Str_f1 == <<"f", "1">>
Str_f2 == <<"f", "2">>
Str_latest == <<"l", "a", "t", "e", "s", "t">>
Str_v1 == <<"1", ".", "0", ".", "0">>
Str_v9 == <<"9", ".", "0", ".", "0">>
Str_v10 == <<"1", "0", ".", "0", ".", "0">>
Str_FixBug == <<"F", "i", "x", " ", "B", "u", "g">>
Str_bugfix == <<"b", "u", "g", " ", "f", "i", "x">>
Str_BugSp == <<"B", "u", "g", " ">>
Str_d1 == <<"2", "0", "2", "4">>
Str_d2 == <<"2", "0", "2", "5">>

\* four metadata objects a caller holds
Object1 ==
    [name |-> Str_a, description |-> Str_FixBug, capabilities |-> <<Str_x>>,
     use_cases |-> <<Str_bugfix>>, category |-> Str_c1,
     difficulty |-> "beginner", requires_internet |-> FALSE,
     created |-> Str_d2]
Object2 ==
    [name |-> Str_b, version |-> Str_v1, description |-> Str_zap,
     tags |-> <<Str_bug, Str_y>>, capabilities |-> <<Str_y>>,
     coding_languages |-> <<Str_ts>>, frameworks |-> <<Str_f1>>,
     category |-> Str_c1, requires_internet |-> TRUE,
     created |-> Str_d1, updated |-> Str_d2]
Object3 ==
    [name |-> Str_a, version |-> Str_v9, keywords |-> <<Str_zap>>,
     capabilities |-> <<Str_x, Str_y>>,
     coding_languages |-> <<Str_js, Str_ts>>, category |-> Str_c2,
     difficulty |-> "advanced", updated |-> Str_d1]
Object4 ==
    [name |-> Str_C, version |-> Str_v10, description |-> Str_BugSp,
     frameworks |-> <<Str_f2>>, difficulty |-> "beginner"]

Objects == <<Object1, Object2, Object3, Object4>>
Refs == DOMAIN Objects

\* the decimal digits of a number below 100
Digits == <<"0", "1", "2", "3", "4", "5", "6", "7", "8", "9">>
NumStr(k) ==
    IF k < 10 THEN <<Digits[k + 1]>>
    ELSE <<Digits[(k \div 10) + 1], Digits[(k % 10) + 1]>>

\* a batch of agents n1, n2, ... a loader registers under the ids p1, p2, ...
Str_Bugfix == <<"B", "u", "g", " ", "f", "i", "x">>
Str_Debugtool == <<"D", "e", "b", "u", "g", " ", "t", "o", "o", "l">>
Str_debugging == <<"d", "e", "b", "u", "g", "g", "i", "n", "g">>
BatchObject(k) ==
    LET named == [name |-> <<"n">> \o NumStr(k)]
    IN CASE k % 4 = 1 -> named @@ [use_cases |-> <<Str_Bugfix>>]
         [] k % 4 = 2 -> named @@ [tags |-> <<Str_bug>>, description |-> Str_Debugtool]
         [] k % 4 = 3 -> named @@ [capabilities |-> <<Str_debugging>>]
         [] OTHER -> named
BatchId(k) == <<"p">> \o NumStr(k)
BatchRef(k) == Len(Objects) + k

\* the object a reference refers to when the caller created it
Created(r) == IF r \in Refs THEN Objects[r] ELSE BatchObject(r - Len(Objects))

\* the object a reference refers to
Deref(heap, r) == IF r \in DOMAIN heap THEN heap[r] ELSE Created(r)

\* caller-chosen ids: one that is no agent's name-version, two that are
Id_k1 == <<"k", "1">>
Id_a_latest == Str_a \o <<"-">> \o Str_latest
Id_b_v1 == Str_b \o <<"-">> \o Str_v1
AgentIds == {Id_k1, Id_a_latest, Id_b_v1}

-----------------------------------------------------------------------------
(* SearchIndex *)

\* the searchable text of a metadata object, lower-cased
SearchableText(metadata) ==
    LET One(k) == IF Has(metadata, k) THEN <<metadata[k]>> ELSE <<>>
        fields == One("name") \o One("description") \o One("role")
                  \o One("specialization")
                  \o ArrOr(metadata, "capabilities") \o ArrOr(metadata, "tags")
                  \o ArrOr(metadata, "keywords") \o ArrOr(metadata, "use_cases")
        Truthy(s) == s # <<>>
    IN ToLowerCase(JoinSpace(SelectSeq(fields, Truthy)))

Tokenize(text) == SplitWhitespace(text)

\* the loop of addDocument with the posting sets kept as arrays: push(id)
RECURSIVE AddPostingsPushed(_, _, _)
AddPostingsPushed(idx, tokens, id) ==
    IF tokens = <<>> THEN idx
    ELSE LET token == Head(tokens)
             ids == IF MapHas(idx, token) THEN MapGet(idx, token) ELSE <<>>
         IN AddPostingsPushed(MapSet(idx, token, Append(ids, id)), Tail(tokens), id)

\* the loop of addDocument: add id to the posting set of each token
RECURSIVE AddPostings(_, _, _)
AddPostings(idx, tokens, id) ==
    IF tokens = <<>> THEN idx
    ELSE LET token == Head(tokens)
             ids == IF MapHas(idx, token) THEN MapGet(idx, token) ELSE <<>>
         IN AddPostings(MapSet(idx, token, SetAdd(ids, id)), Tail(tokens), id)

\* SearchIndex.addDocument, the index part
AddDocument(idx, id, metadata) ==
    AddPostings(idx, Tokenize(SearchableText(metadata)), id)

\* removeDocument that deletes the tokens only id holds and leaves the
\* shared posting sets as they are
RemoveDocumentOwnTokens(idx, id) ==
    LET NotOwn(e) == e.val # <<id>> IN SelectSeq(idx, NotOwn)

\* removeDocument that leaves the tokens in the index
RemoveDocumentKeepTokens(idx, id) ==
    [i \in 1..Len(idx) |-> [key |-> idx[i].key, val |-> SetDelete(idx[i].val, id)]]

\* removeDocument that deletes a token when at most one id is left in its
\* posting set
RemoveDocumentSizeOne(idx, id) ==
    LET removed == [i \in 1..Len(idx) |->
                       [key |-> idx[i].key, val |-> SetDelete(idx[i].val, id)]]
        Several(e) == Len(e.val) > 1
    IN SelectSeq(removed, Several)

\* SearchIndex.removeDocument, the index part: id leaves every posting set,
\* and a token whose set is left empty is deleted
RemoveDocument(idx, id) ==
    LET removed == [i \in 1..Len(idx) |->
                       [key |-> idx[i].key, val |-> SetDelete(idx[i].val, id)]]
        NonEmpty(e) == Len(e.val) # 0
    IN SelectSeq(removed, NonEmpty)

\* results.set(id, (results.get(id) || 0) + points) for each id of a set
RECURSIVE AddScores(_, _, _)
AddScores(results, ids, points) ==
    IF ids = <<>> THEN results
    ELSE LET id == Head(ids)
             old == IF MapHas(results, id) THEN MapGet(results, id) ELSE 0
         IN AddScores(MapSet(results, id, old + points), Tail(ids), points)

\* the partial-match loop over the index entries, for one query token
RECURSIVE PartialMatches(_, _, _, _)
PartialMatches(results, idx, i, token) ==
    IF i > Len(idx) THEN results
    ELSE PartialMatches(
             IF Includes(idx[i].key, token)
             THEN AddScores(results, idx[i].val, 1) ELSE results,
             idx, i + 1, token)

\* the loop over the query tokens
RECURSIVE ScoreTokens(_, _, _)
ScoreTokens(results, idx, tokens) ==
    IF tokens = <<>> THEN results
    ELSE LET token == Head(tokens)
             exact == IF MapHas(idx, token)
                      THEN AddScores(results, MapGet(idx, token), 2)
                      ELSE results
         IN ScoreTokens(PartialMatches(exact, idx, 1, token), idx, Tail(tokens))

\* the scores SearchIndex.search gives, as a Map<id, number>
IndexScores(idx, query) ==
    ScoreTokens(<<>>, idx, Tokenize(ToLowerCase(query)))

\* SearchIndex.search with the sort the other way round: a[1] - b[1]
IndexSearchAscending(idx, query) ==
    LET results == IndexScores(idx, query)
        c == [i \in 1..Len(results), j \in 1..Len(results) |->
                 results[i].val - results[j].val]
    IN MapKeys(StableSort(results, c))

\* SearchIndex.search: the ids by descending score
IndexSearch(idx, query) ==
    LET results == IndexScores(idx, query)
        c == [i \in 1..Len(results), j \in 1..Len(results) |->
                 results[j].val - results[i].val]
    IN MapKeys(StableSort(results, c))

-----------------------------------------------------------------------------
(* AgentSearchEngine *)

\* `${agent.name}-${agent.version || 'latest'}`
GetAgentId(agent) == agent.name \o <<"-">> \o StrOr(agent, "version", Str_latest)

\* String.prototype.localeCompare, -1, 0 or 1, on strings of spaces, '-',
\* '.', digits and letters. The locale's collation puts the characters in
\* this order whatever the case of the letters; two strings that differ in
\* case alone are told apart by the first such letter, lower case first.
Collation ==
    <<" ", "-", ".", "0", "1", "2", "3", "4", "5", "6", "7", "8", "9",
      "a", "b", "c", "d", "e", "f", "g", "h", "i", "j", "k", "l", "m",
      "n", "o", "p", "q", "r", "s", "t", "u", "v", "w", "x", "y", "z">>

CharRank(ch) ==
    LET lower == IF ch \in DOMAIN UpperToLower THEN UpperToLower[ch] ELSE ch
    IN CHOOSE i \in 1..Len(Collation) : Collation[i] = lower

RECURSIVE PrimaryCompare(_, _)
PrimaryCompare(s, u) ==
    IF s = <<>> /\ u = <<>> THEN 0
    ELSE IF s = <<>> THEN -1
    ELSE IF u = <<>> THEN 1
    ELSE IF CharRank(Head(s)) < CharRank(Head(u)) THEN -1
    ELSE IF CharRank(Head(s)) > CharRank(Head(u)) THEN 1
    ELSE PrimaryCompare(Tail(s), Tail(u))

RECURSIVE CaseCompare(_, _)
CaseCompare(s, u) ==
    IF s = <<>> THEN 0
    ELSE IF Head(s) = Head(u) THEN CaseCompare(Tail(s), Tail(u))
    ELSE IF Head(u) \in DOMAIN UpperToLower THEN -1
    ELSE 1

LocaleCompare(s, u) ==
    IF PrimaryCompare(s, u) # 0 THEN PrimaryCompare(s, u) ELSE CaseCompare(s, u)

\* filters.<k>?.length and filters.<k>.some(v => agent.<k>?.includes(v))
AnyListed(agent, filters, k) ==
    \E i \in 1..Len(filters[k]) :
        Has(agent, k) /\ ArrayIncludes(agent[k], filters[k][i])

ListFilterSet(filters, k) == Has(filters, k) /\ Len(filters[k]) # 0

\* applyFilters that tests filters.requires_internet for truth instead of
\* comparing it with undefined
PassesFiltersTruthyInternet(agent, filters) ==
    /\ ListFilterSet(filters, "capabilities")
           => AnyListed(agent, filters, "capabilities")
    /\ ListFilterSet(filters, "coding_languages")
           => AnyListed(agent, filters, "coding_languages")
    /\ ListFilterSet(filters, "frameworks")
           => AnyListed(agent, filters, "frameworks")
    /\ ~ (/\ Has(filters, "category") /\ filters.category # <<>>
          /\ (~ Has(agent, "category") \/ agent.category # filters.category))
    /\ ~ (/\ Has(filters, "difficulty")
          /\ (~ Has(agent, "difficulty") \/ agent.difficulty # filters.difficulty))
    /\ ~ (/\ Has(filters, "requires_internet") /\ filters.requires_internet
          /\ (\/ ~ Has(agent, "requires_internet")
              \/ agent.requires_internet # filters.requires_internet))

\* the predicate of applyFilters: every test that rejects returns false
PassesFilters(agent, filters) ==
    /\ ListFilterSet(filters, "capabilities")
           => AnyListed(agent, filters, "capabilities")
    /\ ListFilterSet(filters, "coding_languages")
           => AnyListed(agent, filters, "coding_languages")
    /\ ListFilterSet(filters, "frameworks")
           => AnyListed(agent, filters, "frameworks")
    /\ ~ (/\ Has(filters, "category") /\ filters.category # <<>>
          /\ (~ Has(agent, "category") \/ agent.category # filters.category))
    /\ ~ (/\ Has(filters, "difficulty")
          /\ (~ Has(agent, "difficulty") \/ agent.difficulty # filters.difficulty))
    /\ ~ (/\ Has(filters, "requires_internet")
          /\ (\/ ~ Has(agent, "requires_internet")
              \/ agent.requires_internet # filters.requires_internet))

\* applyFilters, over the references of the agents
ApplyFilters(heap, refs, filters) ==
    LET Keep(r) == PassesFilters(Deref(heap, r), filters) IN SelectSeq(refs, Keep)

\* the comparator of sortResults without the reversal for 'desc'
SortComparisonAscending(a, b, sort) ==
    IF sort.field \in {"name", "created", "updated", "version"}
    THEN LocaleCompare(StrOr(a, sort.field, <<>>), StrOr(b, sort.field, <<>>))
    ELSE 0

\* the comparator of sortResults: only name, created, updated and version
\* have a case in the switch, any other field leaves comparison at 0
SortComparison(a, b, sort) ==
    LET comparison ==
            IF sort.field \in {"name", "created", "updated", "version"}
            THEN LocaleCompare(StrOr(a, sort.field, <<>>), StrOr(b, sort.field, <<>>))
            ELSE 0
    IN IF sort.order = "asc" THEN comparison ELSE 0 - comparison

\* sortResults: a sorted copy
SortResults(heap, refs, sort) ==
    StableSort(refs, [i \in 1..Len(refs), j \in 1..Len(refs) |->
                         SortComparison(Deref(heap, refs[i]), Deref(heap, refs[j]), sort)])

DefaultLimit == 20

\* options.offset || 0 and options.limit || 20
OffsetOf(options) ==
    IF Has(options, "offset") /\ options.offset # 0 THEN options.offset ELSE 0
LimitOf(options) ==
    IF Has(options, "limit") /\ options.limit # 0 THEN options.limit ELSE DefaultLimit

\* the stages of AgentSearchEngine.search, each from the one before it
HasQuery(options) == Has(options, "query") /\ options.query # <<>>

SearchIds(idx, options) ==
    IF HasQuery(options) THEN IndexSearch(idx, options.query) ELSE <<>>

\* the text filter matching an agent by the id it was registered under
MatchedByKey(heap, ags, searchIds, options) ==
    LET Keep(e) == ArrayIncludes(searchIds, e.key)
    IN IF HasQuery(options)
       THEN MapValues(SelectSeq(ags, Keep)) ELSE MapValues(ags)

Matched(heap, ags, searchIds, options) ==
    LET Keep(r) == ArrayIncludes(searchIds, GetAgentId(Deref(heap, r)))
    IN IF HasQuery(options) THEN SelectSeq(MapValues(ags), Keep) ELSE MapValues(ags)

Filtered(heap, matched, options) ==
    IF Has(options, "filters")
    THEN ApplyFilters(heap, matched, options.filters) ELSE matched

Sorted(heap, filtered, options) ==
    IF Has(options, "sort")
    THEN SortResults(heap, filtered, options.sort) ELSE filtered

\* the pagination with slice(offset, limit) for slice(offset, offset + limit)
PaginatedToLimit(results, options) ==
    LET offset == OffsetOf(options)
        limit == LimitOf(options)
    IN [agents |-> Slice(results, offset, limit),
        total |-> Len(results),
        page |-> (offset \div limit) + 1,
        pageSize |-> limit]

Paginated(results, options) ==
    LET offset == OffsetOf(options)
        limit == LimitOf(options)
    IN [agents |-> Slice(results, offset, offset + limit),
        total |-> Len(results),
        page |-> (offset \div limit) + 1,
        pageSize |-> limit]

\* AgentSearchEngine.search: what it computes on the way and the SearchResult
SearchRun(heap, ags, idx, options) ==
    LET searchIds == SearchIds(idx, options)
        matched == Matched(heap, ags, searchIds, options)
        filtered == Filtered(heap, matched, options)
        sorted == Sorted(heap, filtered, options)
    IN [searchIds |-> searchIds, matched |-> matched, filtered |-> filtered,
        sorted |-> sorted, result |-> Paginated(sorted, options)]

\* findByCapability, findByLanguage (k the list's name) on the values of
\* this.agents: agent.<k>?.includes(v)
FindByList(heap, ags, k, v) ==
    LET Holds(r) == Has(Deref(heap, r), k) /\ ArrayIncludes(Deref(heap, r)[k], v)
    IN SelectSeq(MapValues(ags), Holds)

\* findByCategory: agent.category === category
FindByCategory(heap, ags, category) ==
    LET Holds(r) == Has(Deref(heap, r), "category")
                    /\ Deref(heap, r).category = category
    IN SelectSeq(MapValues(ags), Holds)

DefaultRecommendations == 5

\* <k>?.some(s => s.toLowerCase().includes(useCase.toLowerCase()))
SomeIncludes(agent, k, useCase) ==
    /\ Has(agent, k)
    /\ \E i \in 1..Len(agent[k]) :
           Includes(ToLowerCase(agent[k][i]), ToLowerCase(useCase))

\* the score getRecommendations gives one agent
RecommendationScore(agent, useCase) ==
    (IF SomeIncludes(agent, "use_cases", useCase) THEN 10 ELSE 0)
    + (IF SomeIncludes(agent, "capabilities", useCase) THEN 5 ELSE 0)
    + (IF Has(agent, "description")
          /\ Includes(ToLowerCase(agent.description), ToLowerCase(useCase))
       THEN 3 ELSE 0)
    + (IF SomeIncludes(agent, "tags", useCase) THEN 2 ELSE 0)

\* the loop over this.agents.values(): scores is a Map keyed by the object
RECURSIVE RecommendationScores(_, _, _, _)
RecommendationScores(scores, heap, refs, useCase) ==
    IF refs = <<>> THEN scores
    ELSE LET score == RecommendationScore(Deref(heap, Head(refs)), useCase)
         IN RecommendationScores(
                IF score > 0 THEN MapSet(scores, Head(refs), score) ELSE scores,
                heap, Tail(refs), useCase)

\* getRecommendations that cuts the list to limit before it sorts it
RecommendationsCutFirst(heap, ags, useCase, limit) ==
    LET scores == Slice(RecommendationScores(<<>>, heap, MapValues(ags), useCase),
                        0, limit)
        c == [i \in 1..Len(scores), j \in 1..Len(scores) |->
                 scores[j].val - scores[i].val]
    IN MapKeys(StableSort(scores, c))

\* getRecommendations(useCase, limit): the agents by descending score
GetRecommendations(heap, ags, useCase, limit) ==
    LET scores == RecommendationScores(<<>>, heap, MapValues(ags), useCase)
        c == [i \in 1..Len(scores), j \in 1..Len(scores) |->
                 scores[j].val - scores[i].val]
    IN MapKeys(Slice(StableSort(scores, c), 0, limit))

-----------------------------------------------------------------------------
(* JavaScript values of any type, for the validator: a value carries its    *)
(* type t and, but for undefined and null, its content under a name of the  *)
(* type                                                                     *)

Undefined == [t |-> "undefined"]
Null == [t |-> "null"]
JsString(s) == [t |-> "string", str |-> s]
JsNumber(n) == [t |-> "number", num |-> n]
JsBoolean(b) == [t |-> "boolean", bool |-> b]
JsArray(a) == [t |-> "array", items |-> a]
JsObject(o) == [t |-> "object", props |-> o]

\* reading a property of undefined or null throws a TypeError
CanRead(value) == value.t \notin {"undefined", "null"}

TypeErrorMessage(value, k) ==
    "Cannot read properties of " \o value.t \o " (reading '" \o k \o "')"

\* value.k, for a value that can be read
GetProp(value, k) ==
    CASE value.t = "object" ->
             IF Has(value.props, k) THEN value.props[k] ELSE Undefined
      [] value.t = "string" /\ k = "length" -> JsNumber(Len(value.str))
      [] value.t = "array" /\ k = "length" -> JsNumber(Len(value.items))
      [] OTHER -> Undefined

\* !value is false
Truthy(value) ==
    CASE value.t \in {"undefined", "null"} -> FALSE
      [] value.t = "string" -> value.str # <<>>
      [] value.t = "number" -> value.num # 0
      [] value.t = "boolean" -> value.bool
      [] OTHER -> TRUE

\* the characters of a string as text
RECURSIVE Text(_)
Text(s) == IF s = <<>> THEN "" ELSE Head(s) \o Text(Tail(s))

-----------------------------------------------------------------------------
(* The schema *)

\* String.prototype.split on one character
RECURSIVE SplitOn(_, _)
SplitOn(s, ch) ==
    IF \A i \in 1..Len(s) : s[i] # ch THEN <<s>>
    ELSE LET i == CHOOSE k \in 1..Len(s) :
                      s[k] = ch /\ \A j \in 1..(k - 1) : s[j] # ch
         IN <<SubSeq(s, 1, i - 1)>> \o SplitOn(SubSeq(s, i + 1, Len(s)), ch)

\* s cut at the first ch: what comes before it and, if ch is there, after it
CutAt(s, ch) ==
    IF \A i \in 1..Len(s) : s[i] # ch THEN [before |-> s]
    ELSE LET i == CHOOSE k \in 1..Len(s) :
                      s[k] = ch /\ \A j \in 1..(k - 1) : s[j] # ch
         IN [before |-> SubSeq(s, 1, i - 1), after |-> SubSeq(s, i + 1, Len(s))]

IsDigit(ch) == ch \in {"0", "1", "2", "3", "4", "5", "6", "7", "8", "9"}
IsIdentChar(ch) ==
    IsDigit(ch) \/ ch = "-" \/ ch \in DOMAIN UpperToLower
    \/ ch \in {UpperToLower[c] : c \in DOMAIN UpperToLower}

\* 0|[1-9]\d*
NumericId(s) ==
    /\ s # <<>>
    /\ \A i \in 1..Len(s) : IsDigit(s[i])
    /\ Len(s) > 1 => s[1] # "0"
\* [0-9a-zA-Z-]+
BuildId(s) == s # <<>> /\ \A i \in 1..Len(s) : IsIdentChar(s[i])
\* 0|[1-9]\d*|\d*[a-zA-Z-][0-9a-zA-Z-]*
PrereleaseId(s) ==
    NumericId(s) \/ (BuildId(s) /\ \E i \in 1..Len(s) : ~IsDigit(s[i]))

\* semverRegex.test(s): three numeric identifiers, then '-' and prerelease
\* identifiers, then '+' and build identifiers
IsSemver(s) ==
    LET plus == CutAt(s, "+")
        dash == CutAt(plus.before, "-")
        core == SplitOn(dash.before, ".")
        All(ids, Ok(_)) == \A i \in 1..Len(ids) : Ok(ids[i])
    IN /\ Len(core) = 3 /\ All(core, NumericId)
       /\ Has(dash, "after") => All(SplitOn(dash.after, "."), PrereleaseId)
       /\ Has(plus, "after") => All(SplitOn(plus.after, "."), BuildId)

SemverMessage ==
    "Version must be valid semantic versioning (e.g., 1.0.0, 2.1.0-beta)"

\* the keys of AgentMetadataSchema in the order of the schema, each with the
\* kind of its type; email, created and updated are left out: the metadata
\* validated here never has them, and the schema raises no issue for an
\* optional key that is absent
Shape ==
    << [key |-> "name", kind |-> "name"],
       [key |-> "version", kind |-> "semver"],
       [key |-> "description", kind |-> "string"],
       [key |-> "role", kind |-> "string"],
       [key |-> "specialization", kind |-> "string"],
       [key |-> "capabilities", kind |-> "strings"],
       [key |-> "coding_languages", kind |-> "strings"],
       [key |-> "frameworks", kind |-> "strings"],
       [key |-> "tools", kind |-> "strings"],
       [key |-> "technologies", kind |-> "strings"],
       [key |-> "industries", kind |-> "strings"],
       [key |-> "skills", kind |-> "strings"],
       [key |-> "domains", kind |-> "strings"],
       [key |-> "languages", kind |-> "strings"],
       [key |-> "model_requirements", kind |-> "model_requirements"],
       [key |-> "parameters", kind |-> "parameters"],
       [key |-> "author", kind |-> "string"],
       [key |-> "organization", kind |-> "string"],
       [key |-> "license", kind |-> "string"],
       [key |-> "maintainers", kind |-> "strings"],
       [key |-> "tags", kind |-> "strings"],
       [key |-> "keywords", kind |-> "strings"],
       [key |-> "category", kind |-> "string"],
       [key |-> "subcategory", kind |-> "string"],
       [key |-> "use_cases", kind |-> "strings"],
       [key |-> "difficulty", kind |-> "enum"],
       [key |-> "dependencies", kind |-> "strings"],
       [key |-> "integrations", kind |-> "strings"],
       [key |-> "apis", kind |-> "strings"],
       [key |-> "requires_internet", kind |-> "boolean"] >>

Issue(path, message) == [path |-> path, message |-> message]

\* what a schema says of a value of another type than the one it expects
Expected(type, value, path) ==
    IF value.t = "undefined" THEN <<Issue(path, "Required")>>
    ELSE <<Issue(path, "Expected " \o type \o ", received " \o value.t)>>

\* z.array(z.string()): the issues of the elements, in order
RECURSIVE ElementIssues(_, _, _)
ElementIssues(a, i, path) ==
    IF i > Len(a) THEN <<>>
    ELSE (IF a[i].t = "string" THEN <<>>
          ELSE Expected("string", a[i], path \o <<ToString(i - 1)>>))
         \o ElementIssues(a, i + 1, path)

Difficulties == {<<"b", "e", "g", "i", "n", "n", "e", "r">>,
                 <<"i", "n", "t", "e", "r", "m", "e", "d", "i", "a", "t", "e">>,
                 <<"a", "d", "v", "a", "n", "c", "e", "d">>}
DifficultiesText == "'beginner' | 'intermediate' | 'advanced'"

\* the issues one key of the schema raises about its value
KeyIssues(kind, value, path) ==
    IF kind # "name" /\ value.t = "undefined" THEN <<>>
    ELSE CASE kind = "name" ->
                  IF value.t # "string" THEN Expected("string", value, path)
                  ELSE IF Len(value.str) < 1
                       THEN <<Issue(path, "Agent name is required")>>
                       ELSE <<>>
           [] kind = "semver" ->
                  IF value.t # "string" THEN Expected("string", value, path)
                  ELSE IF IsSemver(value.str) THEN <<>>
                       ELSE <<Issue(path, SemverMessage)>>
           [] kind = "string" ->
                  IF value.t # "string" THEN Expected("string", value, path)
                  ELSE <<>>
           [] kind = "strings" ->
                  IF value.t # "array" THEN Expected("array", value, path)
                  ELSE ElementIssues(value.items, 1, path)
           [] kind = "enum" ->
                  IF value.t # "string"
                  THEN Expected(DifficultiesText, value, path)
                  ELSE IF value.str \in Difficulties THEN <<>>
                       ELSE <<Issue(path, "Invalid enum value. Expected "
                                 \o DifficultiesText \o ", received '"
                                 \o Text(value.str) \o "'")>>
           [] kind = "boolean" ->
                  IF value.t # "boolean" THEN Expected("boolean", value, path)
                  ELSE <<>>
           [] kind = "positive" ->
                  IF value.t # "number" THEN Expected("number", value, path)
                  ELSE IF value.num > 0 THEN <<>>
                       ELSE <<Issue(path, "Number must be greater than 0")>>
           [] kind \in {"upto1", "upto2"} ->
                  LET max == IF kind = "upto1" THEN 1 ELSE 2
                  IN IF value.t # "number" THEN Expected("number", value, path)
                     ELSE (IF value.num >= 0 THEN <<>>
                           ELSE <<Issue(path,
                                    "Number must be greater than or equal to 0")>>)
                          \o (IF value.num <= max THEN <<>>
                              ELSE <<Issue(path,
                                       "Number must be less than or equal to "
                                       \o ToString(max))>>)

\* ModelRequirementsSchema, which is strict, and ParametersSchema, which
\* lets any other key pass: the keys, with numbers as integers
ModelRequirementsShape ==
    << [key |-> "min_context", kind |-> "positive"],
       [key |-> "max_tokens", kind |-> "positive"],
       [key |-> "preferred_models", kind |-> "strings"],
       [key |-> "temperature", kind |-> "upto2"] >>
ParametersShape ==
    << [key |-> "max_iterations", kind |-> "positive"],
       [key |-> "confidence_threshold", kind |-> "upto1"] >>

\* a set of keys as zod lists them: 'a', 'b'
RECURSIVE QuotedKeys(_)
QuotedKeys(keys) ==
    IF keys = {} THEN ""
    ELSE LET k == CHOOSE x \in keys : TRUE
         IN "'" \o k \o "'"
            \o (IF keys = {k} THEN "" ELSE ", " \o QuotedKeys(keys \ {k}))

\* an optional nested object: the issues of its keys in order, then, if it
\* is strict, the issue of the keys it does not know
NestedIssues(shape, strict, value, path) ==
    LET known == {shape[i].key : i \in 1..Len(shape)}
        ofKey == [i \in 1..Len(shape) |->
                     KeyIssues(shape[i].kind, GetProp(value, shape[i].key),
                               path \o <<shape[i].key>>)]
        Concat[i \in 0..Len(shape)] ==
            IF i = 0 THEN <<>> ELSE Concat[i - 1] \o ofKey[i]
    IN IF value.t = "undefined" THEN <<>>
       ELSE IF value.t # "object" THEN Expected("object", value, path)
       ELSE Concat[Len(shape)]
            \o (IF strict /\ DOMAIN value.props \ known # {}
                THEN <<Issue(path, "Unrecognized key(s) in object: "
                                   \o QuotedKeys(DOMAIN value.props \ known))>>
                ELSE <<>>)

\* AgentMetadataSchema on an object: key after key
RECURSIVE ShapeIssues(_, _, _)
ShapeIssues(value, i, path) ==
    IF i > Len(Shape) THEN <<>>
    ELSE (CASE Shape[i].kind = "model_requirements" ->
                   NestedIssues(ModelRequirementsShape, TRUE,
                                GetProp(value, Shape[i].key),
                                path \o <<Shape[i].key>>)
            [] Shape[i].kind = "parameters" ->
                   NestedIssues(ParametersShape, FALSE,
                                GetProp(value, Shape[i].key),
                                path \o <<Shape[i].key>>)
            [] OTHER ->
                   KeyIssues(Shape[i].kind, GetProp(value, Shape[i].key),
                             path \o <<Shape[i].key>>))
         \o ShapeIssues(value, i + 1, path)

\* AgentFrontmatterSchema.safeParse({ agent: metadata }).error.errors, empty
\* on success
SafeParseIssues(metadata) ==
    IF metadata.t # "object" THEN Expected("object", metadata, <<"agent">>)
    ELSE ShapeIssues(metadata, 1, <<"agent">>)

-----------------------------------------------------------------------------
(* AgentParser.validate *)

\* Array.prototype.join('.')
RECURSIVE JoinDot(_)
JoinDot(path) ==
    IF path = <<>> THEN ""
    ELSE IF Len(path) = 1 THEN path[1]
    ELSE path[1] \o "." \o JoinDot(Tail(path))

\* the issues as validation errors under their whole path, 'agent' included
SchemaErrorsWholePath(metadata) ==
    LET issues == SafeParseIssues(metadata)
    IN [i \in 1..Len(issues) |->
           [field |-> JoinDot(issues[i].path), message |-> issues[i].message]]

\* the issues as validation errors: the path without its 'agent' prefix
SchemaErrors(metadata) ==
    LET issues == SafeParseIssues(metadata)
    IN [i \in 1..Len(issues) |->
           [field |-> JoinDot(Tail(issues[i].path)), message |-> issues[i].message]]

Warning(field, message, suggestion) ==
    [field |-> field, message |-> message, suggestion |-> suggestion]

\* value.length === 0
LengthIsZero(value) ==
    LET length == GetProp(value, "length")
    IN length.t = "number" /\ length.num = 0

\* the author warning given when either of the two fields is missing
WarningsAuthorOrOrganization(metadata) ==
    (IF ~Truthy(GetProp(metadata, "version"))
     THEN <<Warning("version",
                    "Version field is strongly recommended for collaboration",
                    "Add version: \"1.0.0\" to track changes")>>
     ELSE <<>>)
    \o (IF ~Truthy(GetProp(metadata, "description"))
        THEN <<Warning("description",
                       "Description helps users understand the agent purpose",
                       "Add a brief description of what this agent does")>>
        ELSE <<>>)
    \o (IF ~Truthy(GetProp(metadata, "author"))
           \/ ~Truthy(GetProp(metadata, "organization"))
        THEN <<Warning("author",
                       "Author or organization helps with attribution",
                       "Add author name or organization")>>
        ELSE <<>>)
    \o (IF /\ Truthy(GetProp(metadata, "capabilities"))
           /\ LengthIsZero(GetProp(metadata, "capabilities"))
        THEN <<Warning("capabilities",
                       "Empty capabilities array provides no value",
                       "Add specific capabilities or remove the field")>>
        ELSE <<>>)

\* the warnings for the recommended fields, for metadata that can be read
Warnings(metadata) ==
    (IF ~Truthy(GetProp(metadata, "version"))
     THEN <<Warning("version",
                    "Version field is strongly recommended for collaboration",
                    "Add version: \"1.0.0\" to track changes")>>
     ELSE <<>>)
    \o (IF ~Truthy(GetProp(metadata, "description"))
        THEN <<Warning("description",
                       "Description helps users understand the agent purpose",
                       "Add a brief description of what this agent does")>>
        ELSE <<>>)
    \o (IF ~Truthy(GetProp(metadata, "author"))
           /\ ~Truthy(GetProp(metadata, "organization"))
        THEN <<Warning("author",
                       "Author or organization helps with attribution",
                       "Add author name or organization")>>
        ELSE <<>>)
    \o (IF /\ Truthy(GetProp(metadata, "capabilities"))
           /\ LengthIsZero(GetProp(metadata, "capabilities"))
        THEN <<Warning("capabilities",
                       "Empty capabilities array provides no value",
                       "Add specific capabilities or remove the field")>>
        ELSE <<>>)

\* a result that counts a warning against the agent
ReturnedValidUnlessWarned(errors, warnings) ==
    [outcome |-> "returned", caught |-> FALSE,
     valid |-> (Len(errors) = 0 /\ Len(warnings) = 0),
     errors |-> errors, warnings |-> warnings]

\* the return of the try block
Returned(errors, warnings) ==
    [outcome |-> "returned", caught |-> FALSE, valid |-> (Len(errors) = 0),
     errors |-> errors, warnings |-> warnings]

\* validate without its catch block: the error reaches the caller
Rethrown(errors, warnings, message) ==
    [outcome |-> "threw", message |-> message]

\* the catch block, given what the try block had collected when it threw
Caught(errors, warnings, message) ==
    [outcome |-> "returned", caught |-> TRUE, valid |-> FALSE,
     errors |-> Append(errors, [field |-> "agent", message |-> message]),
     warnings |-> warnings]

\* AgentParser.validate(agentFile)
Validate(agentFile) ==
    IF ~CanRead(agentFile)
    THEN Caught(<<>>, <<>>, TypeErrorMessage(agentFile, "metadata"))
    ELSE LET metadata == GetProp(agentFile, "metadata")
             errors == SchemaErrors(metadata)
         IN IF ~CanRead(metadata)
            THEN Caught(errors, <<>>, TypeErrorMessage(metadata, "version"))
            ELSE Returned(errors, Warnings(metadata))

-----------------------------------------------------------------------------
(* Strings, for the parser *)

\* the characters of a text
Chars(str) == [i \in 1..Len(str) |-> SubSeq(str, i, i)]

\* String.prototype.startsWith
StartsWith(s, p) == Len(s) >= Len(p) /\ SubSeq(s, 1, Len(p)) = p

\* String.prototype.indexOf: the first position, from 0, or -1
IndexOf(s, sub) ==
    LET At(i) == \A j \in 1..Len(sub) : s[i + j] = sub[j]
    IN IF Includes(s, sub)
       THEN CHOOSE i \in 0..(Len(s) - Len(sub)) :
                At(i) /\ \A k \in 0..(i - 1) : ~At(k)
       ELSE -1

\* String.prototype.slice(from) and slice(0, to), for positions in the string
SliceFrom(s, from) == SubSeq(s, from + 1, Len(s))
SliceTo(s, to) == SubSeq(s, 1, to)

\* String.prototype.trim, trimStart, trimEnd
TrimStart(s) ==
    IF \A i \in 1..Len(s) : IsSpace(s[i]) THEN <<>>
    ELSE SliceFrom(s, (CHOOSE i \in 1..Len(s) :
                           ~IsSpace(s[i]) /\ \A j \in 1..(i - 1) : IsSpace(s[j])) - 1)
TrimEnd(s) ==
    IF \A i \in 1..Len(s) : IsSpace(s[i]) THEN <<>>
    ELSE SliceTo(s, CHOOSE i \in 1..Len(s) :
                        ~IsSpace(s[i]) /\ \A j \in (i + 1)..Len(s) : IsSpace(s[j]))
Trim(s) == TrimEnd(TrimStart(s))

-----------------------------------------------------------------------------
(* js-yaml load with FAILSAFE_SCHEMA, for headers written as block mappings *)
(* of plain or quoted scalars, flow sequences of scalars, block sequences   *)
(* of scalars and nested block mappings, with blank and comment lines.      *)
(* Anything else in a header is reported as a failure of the loader.        *)

LoadFailed == [ok |-> FALSE]
Loaded(value) == [ok |-> TRUE, value |-> value]
\* a value and the line after it
LoadedUpTo(value, next) == [ok |-> TRUE, value |-> value, next |-> next]

\* a line of the header: its indentation and what follows it
Indented(l, text) == [indent |-> Len(l) - Len(text), text |-> TrimEnd(text)]
LineOf(l) == Indented(l, TrimStart(l))

\* the lines that hold something: neither blank nor a comment
HoldingLines(lines) ==
    LET Holds(l) == l.text # <<>> /\ Head(l.text) # "#"
    IN SelectSeq([i \in 1..Len(lines) |-> LineOf(lines[i])], Holds)
YamlLines(s) == HoldingLines(SplitOn(s, "\n"))

\* a plain scalar ends where a comment starts
CutComment(text, at) == IF at = -1 THEN text ELSE TrimEnd(SliceTo(text, at))
WithoutComment(text) == CutComment(text, IndexOf(text, Chars(" #")))

\* a quoted scalar: the quote closes it and is nowhere inside, nor is \
QuotedScalar(quote, body) ==
    IF /\ Len(body) >= 2
       /\ body[Len(body)] = quote
       /\ \A i \in 2..(Len(body) - 1) : body[i] \notin {quote, "\\"}
    THEN Loaded(JsString(SubSeq(body, 2, Len(body) - 1)))
    ELSE LoadFailed

\* a scalar: FAILSAFE_SCHEMA resolves no type, every scalar is a string
ScalarOf(text) ==
    IF text = <<>> THEN LoadFailed
    ELSE IF Head(text) \in {"\"", "'"}
    THEN QuotedScalar(Head(text), WithoutComment(text))
    ELSE IF Head(text) \in {"[", "]", "{", "}", ",", "&", "*", "!", "|", ">",
                            "%", "@", "#"}
    THEN LoadFailed
    ELSE Loaded(JsString(WithoutComment(text)))

\* [a, b, c]
FlowItems(item) ==
    IF \A i \in 1..Len(item) : item[i].ok
    THEN Loaded(JsArray([i \in 1..Len(item) |-> item[i].value]))
    ELSE LoadFailed
FlowScalars(items) == FlowItems([i \in 1..Len(items) |-> ScalarOf(Trim(items[i]))])
FlowBody(body) ==
    IF Len(body) < 2 \/ body[Len(body)] # "]" THEN LoadFailed
    ELSE IF \A i \in 2..(Len(body) - 1) : IsSpace(body[i]) THEN Loaded(JsArray(<<>>))
    ELSE FlowScalars(SplitOn(SubSeq(body, 2, Len(body) - 1), ","))
FlowSequenceOf(text) == FlowBody(WithoutComment(text))

\* the value written on the line of its key or of its dash
InlineValue(text) ==
    IF Head(text) = "[" THEN FlowSequenceOf(text)
    ELSE IF Head(text) = "{" /\ WithoutComment(text) = Chars("{}")
    THEN Loaded(JsObject(NoProps))
    ELSE ScalarOf(text)

\* the value on a line, and the line after it
InlineEntry(v, next) == IF v.ok THEN LoadedUpTo(v.value, next) ELSE LoadFailed

\* '- item' or '-'
IsSequenceEntry(text) ==
    text = <<"-">> \/ StartsWith(text, Chars("- "))

\* where the key of 'key: value' or 'key:' ends, 0 if the line has no key
KeyEnd(text) ==
    LET Ends(i) == text[i] = ":" /\ (i = Len(text) \/ text[i + 1] = " ")
    IN IF Head(text) \notin {"\"", "'", "[", "{"} /\ \E i \in 2..Len(text) : Ends(i)
       THEN CHOOSE i \in 2..Len(text) : Ends(i) /\ \A j \in 2..(i - 1) : ~Ends(j)
       ELSE 0

\* what follows the dash of a sequence entry
SequenceItem(text) ==
    IF text = <<>> THEN Loaded(Null)
    ELSE IF KeyEnd(text) > 0 \/ IsSequenceEntry(text) THEN LoadFailed
    ELSE InlineValue(text)

RECURSIVE LoadNode(_, _)
RECURSIVE LoadSequence(_, _, _, _)
RECURSIVE SequenceWith(_, _, _, _, _)
RECURSIVE LoadMapping(_, _, _, _)
RECURSIVE MappingEntry(_, _, _, _, _)
RECURSIVE EntryValue(_, _, _, _)
RECURSIVE MappingWith(_, _, _, _, _)

\* the block sequence at indentation n from line i on: the value and the
\* line after it
LoadSequence(lines, i, n, acc) ==
    IF i > Len(lines) \/ lines[i].indent < n
       \/ (lines[i].indent = n /\ ~IsSequenceEntry(lines[i].text))
    THEN LoadedUpTo(JsArray(acc), i)
    ELSE IF lines[i].indent > n THEN LoadFailed
    ELSE SequenceWith(lines, i, n, acc,
                      SequenceItem(Trim(SliceFrom(lines[i].text, 1))))
SequenceWith(lines, i, n, acc, item) ==
    IF item.ok THEN LoadSequence(lines, i + 1, n, Append(acc, item.value))
    ELSE LoadFailed

\* the block mapping at indentation n from line i on
LoadMapping(lines, i, n, acc) ==
    IF i > Len(lines) \/ lines[i].indent < n
    THEN LoadedUpTo(JsObject(acc), i)
    ELSE IF lines[i].indent > n \/ IsSequenceEntry(lines[i].text)
    THEN LoadFailed
    ELSE MappingEntry(lines, i, n, acc, KeyEnd(lines[i].text))
\* the entry on line i, its key ending at end
MappingEntry(lines, i, n, acc, end) ==
    IF end = 0 THEN LoadFailed
    ELSE MappingWith(lines, n, acc,
                     Text(TrimEnd(SliceTo(lines[i].text, end - 1))),
                     EntryValue(lines, i, n, Trim(SliceFrom(lines[i].text, end))))
\* the value of the entry on line i: rest, on the line, or the node below
EntryValue(lines, i, n, rest) ==
    IF rest # <<>>
    THEN IF i < Len(lines) /\ lines[i + 1].indent > n THEN LoadFailed
         ELSE InlineEntry(InlineValue(rest), i + 1)
    ELSE IF /\ i < Len(lines)
            /\ \/ lines[i + 1].indent > n
               \/ /\ lines[i + 1].indent = n
                  /\ IsSequenceEntry(lines[i + 1].text)
    THEN LoadNode(lines, i + 1)
    ELSE LoadedUpTo(Null, i + 1)
MappingWith(lines, n, acc, key, entry) ==
    IF key \in DOMAIN acc \/ ~entry.ok THEN LoadFailed
    ELSE LoadMapping(lines, entry.next, n, acc @@ (key :> entry.value))

\* the node that starts on line i
LoadNode(lines, i) ==
    IF IsSequenceEntry(lines[i].text)
    THEN LoadSequence(lines, i, lines[i].indent, <<>>)
    ELSE IF KeyEnd(lines[i].text) > 0
    THEN LoadMapping(lines, i, lines[i].indent, NoProps)
    ELSE InlineEntry(InlineValue(lines[i].text), i + 1)

\* the document is the node if the node takes all n lines
WholeDocument(node, n) ==
    IF node.ok /\ node.next = n + 1 THEN Loaded(node.value) ELSE LoadFailed
LoadDocument(lines) ==
    IF lines = <<>> THEN Loaded(Undefined)
    ELSE WholeDocument(LoadNode(lines, 1), Len(lines))

\* require('js-yaml').load(s, { schema: FAILSAFE_SCHEMA }): undefined for a
\* document that holds nothing, a failure when it throws
YamlLoad(s) == LoadDocument(YamlLines(s))

-----------------------------------------------------------------------------
(* gray-matter and AgentParser.parse *)

Delimiter == Chars("---")

\* the language named after the opening delimiter: what is left of its line
LineEnd(str, at) == IF at = -1 THEN SliceTo(str, Max(Len(str) - 1, 0)) ELSE SliceTo(str, at)
LanguageRaw(str) == LineEnd(str, IndexOf(str, <<"\n">>))

\* the header holds nothing but blank lines and comments
BlankLines(lines) ==
    \A i \in 1..Len(lines) :
        \/ \A j \in 1..Len(lines[i]) : IsSpace(lines[i][j])
        \/ Head(Trim(lines[i])) = "#" /\ Len(Trim(lines[i])) > 1
IsEmptyBlock(header) == BlankLines(SplitOn(header, "\n"))

\* the body: what follows the closing delimiter, less one line break
LessLineBreak(rest) == IF rest # <<>> /\ Head(rest) = "\n" THEN Tail(rest) ELSE rest
BodyAfter(str, closeIndex) ==
    LessLineBreak(SliceFrom(str, closeIndex + 1 + Len(Delimiter)))

Threw(message) == [outcome |-> "threw", message |-> message]
ReturnedValue(value) == [outcome |-> "returned", value |-> value]

\* the data of a header that holds something
MatterData(loaded, content) ==
    IF ~loaded.ok THEN [threw |-> TRUE, message |-> "YAMLException"]
    ELSE [threw |-> FALSE, data |-> loaded.value, content |-> content]

\* the header and the body of a document whose language has an engine
MatterBlock(header, content) ==
    IF IsEmptyBlock(header)
    THEN [threw |-> FALSE, data |-> JsObject(NoProps), content |-> content]
    ELSE MatterData(YamlLoad(header), content)

\* str: what follows the opening delimiter and the language; closeIndex:
\* where the closing delimiter is, the end of str if there is none
MatterClosed(str, closeIndex) ==
    MatterBlock(SliceTo(str, closeIndex),
                IF closeIndex = Len(str) THEN <<>> ELSE BodyAfter(str, closeIndex))
CloseIndex(str, found) == IF found = -1 THEN Len(str) ELSE found
MatterOpened(str) ==
    MatterClosed(str, CloseIndex(str, IndexOf(str, <<"\n">> \o Delimiter)))

MatterLanguage(opened, raw, language) ==
    IF language \notin {<<>>, Chars("yaml"), Chars("yml")}
    THEN [threw |-> TRUE,
          message |-> "gray-matter engine \"" \o Text(language)
                      \o "\" is not registered"]
    ELSE MatterOpened(IF language # <<>> THEN SliceFrom(opened, Len(raw)) ELSE opened)
MatterRaw(opened, raw) == MatterLanguage(opened, raw, Trim(raw))
MatterDelimited(opened) == MatterRaw(opened, LanguageRaw(opened))

\* matter(input, { engines: { yaml: FAILSAFE load } }): the data of the
\* header and the body, or the failure of the engine that reads the header
Matter(text) ==
    IF \/ ~StartsWith(text, Delimiter)
       \/ (Len(text) > Len(Delimiter) /\ text[Len(Delimiter) + 1] = "-")
    THEN [threw |-> FALSE, data |-> JsObject(NoProps), content |-> text]
    ELSE MatterDelimited(SliceFrom(text, Len(Delimiter)))

\* an optional argument that was not supplied is undefined
Supplied(args, k) == IF Has(args, k) THEN args[k] ELSE Undefined

MissingAgentMessage == "Missing required \"agent\" field in frontmatter"

\* the AgentFile of a parsed document
AgentFileOf(parsed, content, filePath) ==
    ReturnedValue(JsObject(
        [metadata |-> GetProp(parsed.data, "agent"),
         content |-> JsString(Trim(parsed.content)),
         rawContent |-> JsString(content),
         filePath |-> filePath]))

\* what parse does with the document gray-matter returned or failed on
ParsedUnchecked(parsed, content, filePath) ==
    IF parsed.threw THEN Threw(parsed.message)
    ELSE IF ~CanRead(parsed.data)
    THEN Threw(TypeErrorMessage(parsed.data, "agent"))
    ELSE AgentFileOf(parsed, content, filePath)
ParsedChecked(parsed, content, filePath) ==
    IF parsed.threw THEN Threw(parsed.message)
    ELSE IF ~CanRead(parsed.data)
    THEN Threw(TypeErrorMessage(parsed.data, "agent"))
    ELSE IF ~Truthy(GetProp(parsed.data, "agent"))
    THEN Threw(MissingAgentMessage)
    ELSE AgentFileOf(parsed, content, filePath)

\* parse without its test of the agent key
ParseUnchecked(content, filePath) ==
    ParsedUnchecked(Matter(content), content, filePath)

\* AgentParser.parse(content, filePath)
Parse(content, filePath) == ParsedChecked(Matter(content), content, filePath)

\* AgentParser.parseAndValidate(content, filePath)
WithValidation(parsed) ==
    IF parsed.outcome = "threw" THEN parsed
    ELSE ReturnedValue([agentFile |-> parsed.value,
                        validation |-> Validate(parsed.value)])
ParseAndValidate(content, filePath) == WithValidation(Parse(content, filePath))

-----------------------------------------------------------------------------
(* js-yaml dump with its default schema, gray-matter's stringify and        *)
(* AgentParser.serialize, for objects of strings, integers, booleans,       *)
(* nulls, arrays of these and nested objects; the strings are of letters,   *)
(* digits, spaces, '.', '-' and '_'                                         *)

RECURSIVE DecimalOf(_)
DecimalOf(n) ==
    IF n < 10 THEN <<Digits[n + 1]>>
    ELSE DecimalOf(n \div 10) \o <<Digits[(n % 10) + 1]>>
NumberText(n) == IF n < 0 THEN <<"-">> \o DecimalOf(0 - n) ELSE DecimalOf(n)

\* the strings the default schema reads as something else than a string:
\* null, a boolean, an integer, a float, a date
Unsigned(s) == IF s # <<>> /\ Head(s) \in {"-", "+"} THEN Tail(s) ELSE s
AllDigits(s) == s # <<>> /\ \A i \in 1..Len(s) : IsDigit(s[i])
ResolvesImplicitly(s) ==
    \/ s \in {Chars(x) : x \in {"~", "null", "Null", "NULL"}}
    \/ s \in {Chars(x) : x \in {"true", "True", "TRUE", "false", "False", "FALSE"}}
    \/ AllDigits(Unsigned(s))
    \/ LET parts == SplitOn(Unsigned(s), ".")
       IN Len(parts) = 2 /\ AllDigits(parts[1]) /\ AllDigits(parts[2])
    \/ LET parts == SplitOn(s, "-")
       IN /\ Len(parts) = 3 /\ \A i \in 1..3 : AllDigits(parts[i])
          /\ Len(parts[1]) = 4 /\ Len(parts[2]) = 2 /\ Len(parts[3]) = 2

\* a string may be written plain if it starts with a letter or a digit, does
\* not end with a space and would be read back as a string
IsPlain(s) ==
    /\ s # <<>>
    /\ IsIdentChar(s[1]) /\ s[1] # "-"
    /\ s[Len(s)] # " "
    /\ \A i \in 1..Len(s) : IsIdentChar(s[i]) \/ s[i] \in {" ", ".", "_"}
    /\ ~ResolvesImplicitly(s)

IsScalar(value) == value.t \in {"string", "number", "boolean", "null"}

ScalarText(value) ==
    CASE value.t = "string" ->
             IF IsPlain(value.str) THEN value.str
             ELSE <<"'">> \o value.str \o <<"'">>
      [] value.t = "number" -> NumberText(value.num)
      [] value.t = "boolean" -> IF value.bool THEN Chars("true") ELSE Chars("false")
      [] value.t = "null" -> Chars("null")

\* what dump can write: no undefined anywhere (dump throws on it)
RECURSIVE IsDumpable(_)
IsDumpable(value) ==
    CASE value.t = "undefined" -> FALSE
      [] value.t = "array" ->
             \A i \in 1..Len(value.items) : IsScalar(value.items[i])
      [] value.t = "object" ->
             \A k \in DOMAIN value.props : IsDumpable(value.props[k])
      [] OTHER -> TRUE

\* the keys of an object, one after the other
RECURSIVE KeyOrder(_)
KeyOrder(keys) ==
    IF keys = {} THEN <<>>
    ELSE LET k == CHOOSE x \in keys : TRUE IN <<k>> \o KeyOrder(keys \ {k})

Pad(n) == [i \in 1..n |-> " "]

\* the lines of a mapping at indentation n
RECURSIVE DumpMapping(_, _, _)
DumpMapping(props, keys, n) ==
    IF keys = <<>> THEN <<>>
    ELSE LET value == props[Head(keys)]
             start == Pad(n) \o Chars(Head(keys)) \o <<":">>
             entry ==
                 CASE IsScalar(value) -> <<start \o <<" ">> \o ScalarText(value)>>
                   [] value.t = "array" ->
                          IF value.items = <<>> THEN <<start \o Chars(" []")>>
                          ELSE <<start>>
                               \o [i \in 1..Len(value.items) |->
                                      Pad(n + 2) \o Chars("- ")
                                      \o ScalarText(value.items[i])]
                   [] value.t = "object" ->
                          IF DOMAIN value.props = {} THEN <<start \o Chars(" {}")>>
                          ELSE <<start>>
                               \o DumpMapping(value.props,
                                              KeyOrder(DOMAIN value.props), n + 2)
         IN entry \o DumpMapping(props, Tail(keys), n)

\* lines, each ended by a line break
RECURSIVE JoinLines(_)
JoinLines(lines) ==
    IF lines = <<>> THEN <<>>
    ELSE Head(lines) \o <<"\n">> \o JoinLines(Tail(lines))

\* require('js-yaml').safeDump(data) for an object
YamlDump(props) == JoinLines(DumpMapping(props, KeyOrder(DOMAIN props), 0))

\* gray-matter's newline(str)
Newline(s) == IF s = <<>> \/ s[Len(s)] # "\n" THEN s \o <<"\n">> ELSE s

\* matter.stringify(content, data): the content is itself read as a document
\* with a header, whose data the data given is laid over (the header of a
\* body holds plain strings here, which the default schema reads as strings)
Stringified(merged, content) ==
    IF \E k \in DOMAIN merged : ~IsDumpable(merged[k])
    THEN Threw("unacceptable kind of an object to dump [object Undefined]")
    ELSE ReturnedValue(Newline(Delimiter) \o Newline(Trim(YamlDump(merged)))
                       \o Newline(Delimiter) \o Newline(content))
StringifyFile(file, data) ==
    IF file.threw THEN Threw(file.message)
    ELSE Stringified(IF file.data.t = "object" THEN data @@ file.data.props
                     ELSE data,
                     file.content)
Stringify(content, data) == StringifyFile(Matter(content), data)

\* AgentParser.serialize(agentFile)
Serialize(agentFile) ==
    IF GetProp(agentFile, "content").t # "string"
    THEN Threw("expected input to be a string or buffer")
    ELSE Stringify(GetProp(agentFile, "content").str,
                   [agent |-> GetProp(agentFile, "metadata")])

-----------------------------------------------------------------------------
(* The semver library, as far as VersionManager calls it: clean, parse,    *)
(* major, compare, lt, satisfies, inc                                       *)

\* the characters by their codes
CodeOrder ==
    <<" ", "-", ".", "0", "1", "2", "3", "4", "5", "6", "7", "8", "9",
      "A", "B", "C", "D", "E", "F", "G", "H", "I", "J", "K", "L", "M",
      "N", "O", "P", "Q", "R", "S", "T", "U", "V", "W", "X", "Y", "Z",
      "a", "b", "c", "d", "e", "f", "g", "h", "i", "j", "k", "l", "m",
      "n", "o", "p", "q", "r", "s", "t", "u", "v", "w", "x", "y", "z">>

CodeOf(ch) == CHOOSE i \in 1..Len(CodeOrder) : CodeOrder[i] = ch

\* s <= u when the first character that differs decides by Rank, and a
\* string comes before the strings it is a prefix of
LexLeq(s, u, Rank(_)) ==
    \/ \E k \in 1..Min(Len(s), Len(u)) :
           /\ \A i \in 1..(k - 1) : Rank(s[i]) = Rank(u[i])
           /\ Rank(s[k]) < Rank(u[k])
    \/ Len(s) <= Len(u) /\ \A i \in 1..Len(s) : Rank(s[i]) = Rank(u[i])

\* the plain comparison of strings, code by code
PlainLeq(s, u) == LexLeq(s, u, CodeOf)

\* the number a string of digits writes
RECURSIVE NumberOf(_)
NumberOf(s) ==
    IF s = <<>> THEN 0
    ELSE 10 * NumberOf(SubSeq(s, 1, Len(s) - 1))
         + (CHOOSE k \in 0..9 : Digits[k + 1] = s[Len(s)])

\* s without the characters of the set at its start
RECURSIVE StripLeading(_, _)
StripLeading(s, set) ==
    IF s # <<>> /\ Head(s) \in set THEN StripLeading(Tail(s), set) ELSE s

RECURSIVE JoinWith(_, _)
JoinWith(parts, sep) ==
    IF parts = <<>> THEN <<>>
    ELSE IF Len(parts) = 1 THEN parts[1]
    ELSE parts[1] \o sep \o JoinWith(Tail(parts), sep)

\* new SemVer(version): the string without white space at its ends, an
\* optional v, then the grammar of semverRegex; a record of its parts, or
\* no record when the constructor throws
NotSemver == [valid |-> FALSE]
SemVer(version) ==
    LET t == Trim(version)
        s == IF t # <<>> /\ Head(t) = "v" THEN Tail(t) ELSE t
        plus == CutAt(s, "+")
        dash == CutAt(plus.before, "-")
        core == SplitOn(dash.before, ".")
    IN IF ~IsSemver(s) THEN NotSemver
       ELSE [valid |-> TRUE,
             major |-> NumberOf(core[1]),
             minor |-> NumberOf(core[2]),
             patch |-> NumberOf(core[3]),
             prerelease |-> IF Has(dash, "after") THEN SplitOn(dash.after, ".")
                            ELSE <<>>,
             build |-> IF Has(plus, "after") THEN SplitOn(plus.after, ".")
                       ELSE <<>>]

\* SemVer.format(): the version without its build part
Format(v) ==
    NumberText(v.major) \o <<".">> \o NumberText(v.minor) \o <<".">>
    \o NumberText(v.patch)
    \o (IF v.prerelease = <<>> THEN <<>>
        ELSE <<"-">> \o JoinWith(v.prerelease, <<".">>))

\* semver.clean(version): null, or the text of the version
Clean(version) ==
    LET v == SemVer(StripLeading(Trim(version), {"=", "v"}))
    IN IF v.valid THEN JsString(Format(v)) ELSE Null

Sign(n) == IF n < 0 THEN 0 - 1 ELSE IF n > 0 THEN 1 ELSE 0

\* compareIdentifiers(a, b): numbers by value and before the others, the
\* others as strings
CompareIdentifiers(a, b) ==
    IF AllDigits(a) /\ AllDigits(b) THEN Sign(NumberOf(a) - NumberOf(b))
    ELSE IF a = b THEN 0
    ELSE IF AllDigits(a) THEN 0 - 1
    ELSE IF AllDigits(b) THEN 1
    ELSE IF PlainLeq(a, b) THEN 0 - 1 ELSE 1

\* SemVer.comparePre from the identifier at i on
RECURSIVE ComparePreFrom(_, _, _)
ComparePreFrom(a, b, i) ==
    IF i > Len(a) /\ i > Len(b) THEN 0
    ELSE IF i > Len(b) THEN 1
    ELSE IF i > Len(a) THEN 0 - 1
    ELSE IF a[i] = b[i] THEN ComparePreFrom(a, b, i + 1)
    ELSE CompareIdentifiers(a[i], b[i])

\* SemVer.compare(other) on two parsed versions
CompareParsed(a, b) ==
    IF a.major # b.major THEN Sign(a.major - b.major)
    ELSE IF a.minor # b.minor THEN Sign(a.minor - b.minor)
    ELSE IF a.patch # b.patch THEN Sign(a.patch - b.patch)
    ELSE IF a.prerelease # <<>> /\ b.prerelease = <<>> THEN 0 - 1
    ELSE IF a.prerelease = <<>> /\ b.prerelease # <<>> THEN 1
    ELSE ComparePreFrom(a.prerelease, b.prerelease, 1)

\* semver.compare, semver.lt, semver.major on the text of two versions
Compare(a, b) == CompareParsed(SemVer(a), SemVer(b))
Lt(a, b) == Compare(a, b) < 0
Major(a) == SemVer(a).major

\* the comparators of a range: a version, with = or v before it or not, is
\* the one comparator "equal to it"; ^ and a version is "not below it" and
\* "below the next change of its first part that is not 0"; any other text
\* is no range of the ones read here
Comparators(range) ==
    LET r == Trim(range)
        exact == SemVer(StripLeading(r, {"=", "v", " "}))
        from == IF r # <<>> /\ Head(r) = "^"
                THEN SemVer(StripLeading(Tail(r), {"=", "v", " "}))
                ELSE NotSemver
        to == IF from.major > 0
              THEN [from EXCEPT !.major = @ + 1, !.minor = 0, !.patch = 0,
                                !.prerelease = <<"0">>, !.build = <<>>]
              ELSE IF from.minor > 0
              THEN [from EXCEPT !.minor = @ + 1, !.patch = 0,
                                !.prerelease = <<"0">>, !.build = <<>>]
              ELSE [from EXCEPT !.patch = @ + 1,
                                !.prerelease = <<"0">>, !.build = <<>>]
    IN IF exact.valid THEN <<[operator |-> "", semver |-> exact]>>
       ELSE IF from.valid
       THEN <<[operator |-> ">=", semver |-> from], [operator |-> "<", semver |-> to]>>
       ELSE <<>>

\* Comparator.test(version)
ComparatorTest(c, v) ==
    CASE c.operator = "" -> CompareParsed(v, c.semver) = 0
      [] c.operator = ">=" -> CompareParsed(v, c.semver) >= 0
      [] c.operator = "<" -> CompareParsed(v, c.semver) < 0

\* semver.satisfies(version, range): false for what is no version or no
\* range; every comparator holds and, for a version with a pre-release part,
\* some comparator has one on the same major, minor and patch
Satisfies(version, range) ==
    LET v == SemVer(version)
        set == Comparators(range)
    IN /\ v.valid
       /\ set # <<>>
       /\ \A i \in 1..Len(set) : ComparatorTest(set[i], v)
       /\ v.prerelease # <<>> =>
              \E i \in 1..Len(set) :
                  /\ set[i].semver.prerelease # <<>>
                  /\ set[i].semver.major = v.major
                  /\ set[i].semver.minor = v.minor
                  /\ set[i].semver.patch = v.patch

\* semver.inc(version, release) for major, minor and patch: a pre-release
\* of the version the step would lead to becomes that version
Inc(version, release) ==
    LET v == SemVer(version)
        released == [v EXCEPT !.prerelease = <<>>, !.build = <<>>]
    IN CASE ~v.valid -> Null
         [] release = "major" ->
                JsString(Format(
                    [released EXCEPT
                        !.major = IF v.minor # 0 \/ v.patch # 0 \/ v.prerelease = <<>>
                                  THEN @ + 1 ELSE @,
                        !.minor = 0, !.patch = 0]))
         [] release = "minor" ->
                JsString(Format(
                    [released EXCEPT
                        !.minor = IF v.patch # 0 \/ v.prerelease = <<>>
                                  THEN @ + 1 ELSE @,
                        !.patch = 0]))
         [] release = "patch" ->
                JsString(Format(
                    [released EXCEPT
                        !.patch = IF v.prerelease = <<>> THEN @ + 1 ELSE @]))

-----------------------------------------------------------------------------
(* VersionManager *)

\* checkCompatibility(requiredVersion, providedVersion), on two strings
CheckCompatibilityOlderFirst(requiredVersion, providedVersion) ==
    LET cleanRequired == Clean(requiredVersion)
        cleanProvided == Clean(providedVersion)
        requiredMajor == Major(cleanRequired.str)
        providedMajor == Major(cleanProvided.str)
    IN IF ~Truthy(cleanRequired) \/ ~Truthy(cleanProvided)
       THEN [compatible |-> FALSE, reason |-> Chars("Invalid version format")]
       ELSE IF Satisfies(cleanProvided.str, requiredVersion)
       THEN [compatible |-> TRUE]
       ELSE IF Lt(cleanProvided.str, cleanRequired.str)
       THEN [compatible |-> FALSE,
             reason |-> Chars("Version too old: required ") \o requiredVersion
                        \o Chars(", provided ") \o providedVersion,
             suggestedVersion |-> requiredVersion]
       ELSE IF requiredMajor # providedMajor
       THEN [compatible |-> FALSE,
             reason |-> Chars("Major version mismatch: required v")
                        \o NumberText(requiredMajor) \o Chars(", provided v")
                        \o NumberText(providedMajor),
             suggestedVersion |-> NumberText(requiredMajor) \o Chars(".x.x")]
       ELSE [compatible |-> TRUE]
CheckCompatibility(requiredVersion, providedVersion) ==
    LET cleanRequired == Clean(requiredVersion)
        cleanProvided == Clean(providedVersion)
        requiredMajor == Major(cleanRequired.str)
        providedMajor == Major(cleanProvided.str)
    IN IF ~Truthy(cleanRequired) \/ ~Truthy(cleanProvided)
       THEN [compatible |-> FALSE, reason |-> Chars("Invalid version format")]
       ELSE IF Satisfies(cleanProvided.str, requiredVersion)
       THEN [compatible |-> TRUE]
       ELSE IF requiredMajor # providedMajor
       THEN [compatible |-> FALSE,
             reason |-> Chars("Major version mismatch: required v")
                        \o NumberText(requiredMajor) \o Chars(", provided v")
                        \o NumberText(providedMajor),
             suggestedVersion |-> NumberText(requiredMajor) \o Chars(".x.x")]
       ELSE IF Lt(cleanProvided.str, cleanRequired.str)
       THEN [compatible |-> FALSE,
             reason |-> Chars("Version too old: required ") \o requiredVersion
                        \o Chars(", provided ") \o providedVersion,
             suggestedVersion |-> requiredVersion]
       ELSE [compatible |-> TRUE]

\* the release suggestVersionBump settles on
UpdateTypeFirstSet(changes) ==
    IF Has(changes, "newFeatures") /\ changes.newFeatures THEN "minor"
    ELSE IF Has(changes, "breakingChanges") /\ changes.breakingChanges THEN "major"
    ELSE "patch"
UpdateType(changes) ==
    IF Has(changes, "breakingChanges") /\ changes.breakingChanges THEN "major"
    ELSE IF Has(changes, "newFeatures") /\ changes.newFeatures THEN "minor"
    ELSE "patch"

\* suggestVersionBump(currentVersion, changes), changes an object of flags
SuggestVersionBump(currentVersion, changes) ==
    LET current == Clean(currentVersion)
    IN IF ~Truthy(current) THEN Threw("Invalid current version")
       ELSE ReturnedValue(
                [currentVersion |-> current.str,
                 newVersion |-> Inc(current.str, UpdateType(changes)).str,
                 updateType |-> UpdateType(changes),
                 breakingChanges |->
                     Has(changes, "breakingChanges") /\ changes.breakingChanges])

\* agent.model_requirements?.k
RequirementOf(agent, k) ==
    IF CanRead(GetProp(agent, "model_requirements"))
    THEN GetProp(GetProp(agent, "model_requirements"), k)
    ELSE Undefined

\* checkModelCompatibility(agent, availableModel, availableContext)
CheckModelCompatibility(agent, availableModel, availableContext) ==
    LET preferred == RequirementOf(agent, "preferred_models")
        context == RequirementOf(agent, "min_context")
        isPreferred ==
            \E i \in 1..Len(preferred.items) :
                Includes(ToLowerCase(availableModel),
                         ToLowerCase(preferred.items[i].str))
        modelIssues ==
            IF Truthy(preferred) /\ ~isPreferred
            THEN <<Chars("Model ") \o availableModel
                   \o Chars(" is not in preferred models: ")
                   \o JoinWith([i \in 1..Len(preferred.items) |->
                                   preferred.items[i].str], Chars(", "))>>
            ELSE <<>>
        contextIssues ==
            IF Truthy(context) /\ availableContext < context.num
            THEN <<Chars("Insufficient context: requires ")
                   \o NumberText(context.num) \o Chars(", available ")
                   \o NumberText(availableContext)>>
            ELSE <<>>
        issues == modelIssues \o contextIssues
    IN [compatible |-> Len(issues) = 0, issues |-> issues]

\* compareVersions(v1, v2)
CompareVersions(v1, v2) ==
    LET clean1 == Clean(v1)
        clean2 == Clean(v2)
    IN IF ~Truthy(clean1) \/ ~Truthy(clean2) THEN Threw("Invalid version format")
       ELSE ReturnedValue(Compare(clean1.str, clean2.str))

\* hasUpdate(currentVersion, latestVersion)
HasUpdateWhenDifferent(currentVersion, latestVersion) ==
    LET current == Clean(currentVersion)
        latest == Clean(latestVersion)
    IN IF ~Truthy(current) \/ ~Truthy(latest) THEN FALSE
       ELSE Compare(current.str, latest.str) # 0
HasUpdate(currentVersion, latestVersion) ==
    LET current == Clean(currentVersion)
        latest == Clean(latestVersion)
    IN IF ~Truthy(current) \/ ~Truthy(latest) THEN FALSE
       ELSE Lt(current.str, latest.str)

\* parseVersion(version): null, or the parts, prerelease and build undefined
\* when the version has none
ParseVersion(version) ==
    LET clean == Clean(version)
        parsed == SemVer(clean.str)
    IN IF ~Truthy(clean) THEN Null
       ELSE JsObject(
                [major |-> JsNumber(parsed.major),
                 minor |-> JsNumber(parsed.minor),
                 patch |-> JsNumber(parsed.patch),
                 prerelease |-> IF Len(parsed.prerelease) > 0
                                THEN JsString(JoinWith(parsed.prerelease, <<".">>))
                                ELSE Undefined,
                 build |-> IF Len(parsed.build) > 0
                           THEN JsString(JoinWith(parsed.build, <<".">>))
                           ELSE Undefined])

-----------------------------------------------------------------------------
(* normalizeMetadata, on an object whose arrays hold strings; the object is *)
(* the record of its properties, each a value with its type                 *)

\* the arrayFields of normalizeMetadata
ArrayFields ==
    {"capabilities", "coding_languages", "frameworks", "tools", "technologies",
     "industries", "skills", "domains", "languages", "tags", "keywords",
     "use_cases"}

\* [...new Set(items)]: the first of equal items stays, in its place
RECURSIVE SetOf(_)
SetOf(items) ==
    IF items = <<>> THEN <<>>
    ELSE LET Other(x) == x # Head(items)
         IN <<Head(items)>> \o SetOf(SelectSeq(Tail(items), Other))

\* Array.prototype.sort without a comparator, on strings: by code units
DefaultSort(items) ==
    StableSort(items, [i \in 1..Len(items), j \in 1..Len(items) |->
                          IF items[i].str = items[j].str THEN 0
                          ELSE IF PlainLeq(items[i].str, items[j].str) THEN 0 - 1
                          ELSE 1])

\* the first loop: the array fields that hold an array
NormalizedArrays(metadata) ==
    [k \in DOMAIN metadata |->
        IF k \in ArrayFields /\ metadata[k].t = "array"
        THEN JsArray(DefaultSort(SetOf(metadata[k].items)))
        ELSE metadata[k]]

\* the second loop: the properties that hold a string
TrimmedStrings(normalized) ==
    [k \in DOMAIN normalized |->
        IF normalized[k].t = "string"
        THEN JsString(Trim(normalized[k].str))
        ELSE normalized[k]]

\* normalizeMetadata(metadata): the object it returns
NormalizeMetadata(metadata) == TrimmedStrings(NormalizedArrays(metadata))

-----------------------------------------------------------------------------
(* The calls *)

NoCall == [op |-> "none"]

\* a caller that counts its addAgent and removeAgent calls makes at most
\* MaxCalls of them
MaxCalls == 3
Counted == ncalls < MaxCalls /\ ncalls' = ncalls + 1

Init ==
    /\ objs = NoProps
    /\ agents = <<>>
    /\ index = <<>>
    /\ documents = <<>>
    /\ input = NoProps
    /\ last = NoCall
    /\ ncalls = 0

\* addAgent(agentId, metadata): metadata is the object r refers to
AddAgent(id, r) ==
    /\ agents' = MapSet(agents, id, r)
    /\ documents' = MapSet(documents, id, r)
    /\ index' = AddDocument(index, id, Deref(objs, r))
    /\ last' = [op |-> "addAgent", id |-> id, ref |-> r,
                again |-> (last.op = "addAgent" /\ last.id = id)]
    /\ UNCHANGED <<objs, input>>

\* removeAgent(agentId)
RemoveAgent(id) ==
    /\ agents' = MapDelete(agents, id)
    /\ documents' = MapDelete(documents, id)
    /\ index' = RemoveDocument(index, id)
    /\ last' = [op |-> "removeAgent", id |-> id, was |-> MapHas(agents, id)]
    /\ UNCHANGED <<objs, input>>

\* search(options)
Search(options) ==
    /\ last' = [op |-> "search", options |-> options,
                run |-> SearchRun(objs, agents, index, options)]
    /\ UNCHANGED <<objs, agents, index, documents, input, ncalls>>

\* getRecommendations(useCase, limit): limit is 5 when it is not given
Recommend(args) ==
    LET limit == IF Has(args, "limit") THEN args.limit ELSE DefaultRecommendations
    IN /\ last' = [op |-> "getRecommendations", args |-> args,
                   scores |-> RecommendationScores(<<>>, objs, MapValues(agents),
                                                   args.useCase),
                   recommended |-> GetRecommendations(objs, agents, args.useCase, limit)]
       /\ UNCHANGED <<objs, agents, index, documents, input, ncalls>>

\* the caller assigns to a property of an object it holds: m.k = value
CallerSets(r, k, value) ==
    /\ objs' = (r :> ((k :> value) @@ Deref(objs, r))) @@ objs
    /\ last' = [op |-> "set", ref |-> r, key |-> k]
    /\ UNCHANGED <<agents, index, documents, input, ncalls>>

\* findByCapability(capability), findByLanguage(language)
FindByCapability(capability) ==
    /\ last' = [op |-> "findByCapability", arg |-> capability,
                found |-> FindByList(objs, agents, "capabilities", capability)]
    /\ UNCHANGED <<objs, agents, index, documents, input, ncalls>>

FindByLanguage(language) ==
    /\ last' = [op |-> "findByLanguage", arg |-> language,
                found |-> FindByList(objs, agents, "coding_languages", language)]
    /\ UNCHANGED <<objs, agents, index, documents, input, ncalls>>

\* findByCategory(category)
FindByCategoryCall(category) ==
    /\ last' = [op |-> "findByCategory", arg |-> category,
                found |-> FindByCategory(objs, agents, category)]
    /\ UNCHANGED <<objs, agents, index, documents, input, ncalls>>

\* validate(input): a pure function of its argument
ValidateInput ==
    /\ last = NoCall
    /\ last' = [op |-> "validate", result |-> Validate(input)]
    /\ UNCHANGED <<objs, agents, index, documents, input, ncalls>>

\* parse(input.content, input.filePath) and parseAndValidate of the same
ParseInput ==
    /\ last = NoCall
    /\ Has(input, "content")
    /\ last' = [op |-> "parse",
                result |-> Parse(input.content, Supplied(input, "filePath"))]
    /\ UNCHANGED <<objs, agents, index, documents, input, ncalls>>

ParseAndValidateInput ==
    /\ last = NoCall
    /\ Has(input, "content")
    /\ last' = [op |-> "parseAndValidate",
                result |-> ParseAndValidate(input.content,
                                            Supplied(input, "filePath"))]
    /\ UNCHANGED <<objs, agents, index, documents, input, ncalls>>

\* serialize(agentFile) on the input
SerializeInput ==
    /\ last = NoCall
    /\ last' = [op |-> "serialize", result |-> Serialize(input)]
    /\ UNCHANGED <<objs, agents, index, documents, input, ncalls>>

\* parse on the text serialize returned
ParseSerialized ==
    /\ last.op = "serialize"
    /\ last.result.outcome = "returned"
    /\ last' = [op |-> "parseSerialized", text |-> last.result.value,
                result |-> Parse(last.result.value, Undefined)]
    /\ UNCHANGED <<objs, agents, index, documents, input, ncalls>>

\* normalizeMetadata(input): the copy it returns; the spread and the Set
\* read the input and its arrays, and no statement writes to them
NormalizeInput ==
    /\ last = NoCall
    /\ last' = [op |-> "normalizeMetadata", result |-> NormalizeMetadata(input)]
    /\ UNCHANGED <<objs, agents, index, documents, input, ncalls>>

\* normalizeMetadata on the object the call before returned
NormalizeResult ==
    /\ last.op = "normalizeMetadata"
    /\ last' = [op |-> "normalizeResult", first |-> last.result,
                result |-> NormalizeMetadata(last.result)]
    /\ UNCHANGED <<objs, agents, index, documents, input, ncalls>>

\* the calls of VersionManager on the input
CheckCompatibilityInput ==
    /\ last = NoCall
    /\ last' = [op |-> "checkCompatibility",
                result |-> CheckCompatibility(input.v1, input.v2)]
    /\ UNCHANGED <<objs, agents, index, documents, input, ncalls>>

SuggestVersionBumpInput ==
    /\ last = NoCall
    /\ last' = [op |-> "suggestVersionBump",
                result |-> SuggestVersionBump(input.v1, input.changes)]
    /\ UNCHANGED <<objs, agents, index, documents, input, ncalls>>

CompareVersionsInput ==
    /\ last = NoCall
    /\ last' = [op |-> "compareVersions",
                result |-> CompareVersions(input.v1, input.v2)]
    /\ UNCHANGED <<objs, agents, index, documents, input, ncalls>>

HasUpdateInput ==
    /\ last = NoCall
    /\ last' = [op |-> "hasUpdate", result |-> HasUpdate(input.v1, input.v2)]
    /\ UNCHANGED <<objs, agents, index, documents, input, ncalls>>

ParseVersionInput ==
    /\ last = NoCall
    /\ last' = [op |-> "parseVersion", result |-> ParseVersion(input.v1)]
    /\ UNCHANGED <<objs, agents, index, documents, input, ncalls>>

CheckModelCompatibilityInput ==
    /\ last = NoCall
    /\ last' = [op |-> "checkModelCompatibility",
                result |-> CheckModelCompatibility(input.agent, input.model,
                                                   input.context)]
    /\ UNCHANGED <<objs, agents, index, documents, input, ncalls>>

-----------------------------------------------------------------------------
(* Spec: any of the ids with any of the four objects, and text queries *)

\* the queries of the text search: a word, a word in upper case after white
\* space, two words, the empty string
Str_fix == <<"f", "i", "x">>
Queries == {Str_bug, Str_zap, Str_x, <<" ", "Y">>, Str_fix \o <<" ">> \o Str_a, <<>>}
QueryOptions == {[query |-> q] : q \in Queries}

AddAny == Counted /\ \E id \in AgentIds, r \in Refs : AddAgent(id, r)
RemoveAny == Counted /\ \E id \in AgentIds : RemoveAgent(id)
SearchQuery == \E o \in QueryOptions : Search(o)

Next == AddAny \/ RemoveAny \/ SearchQuery

Spec == Init /\ [][Next]_vars

-----------------------------------------------------------------------------
(* SpecFilter and SpecSort: each object under an id of its own *)

Id_c_v10 == Str_C \o <<"-">> \o Str_v10
OwnId == <<Id_a_latest, Id_b_v1, Id_k1, Id_c_v10>>

AddOwn == Counted /\ \E r \in Refs : AddAgent(OwnId[r], r)
RemoveOwn == Counted /\ \E r \in Refs : RemoveAgent(OwnId[r])

\* the values a filter field takes, and the filters that set up to two fields
FilterValues ==
    [capabilities |-> <<<<>>, <<Str_x>>, <<Str_x, Str_y>>>>,
     coding_languages |-> <<<<Str_ts>>>>,
     frameworks |-> <<<<Str_f1, Str_f2>>>>,
     category |-> <<<<>>, Str_c1, Str_c2>>,
     difficulty |-> <<"beginner">>,
     requires_internet |-> <<TRUE, FALSE>>]

FiltersOver(fields) ==
    {[k \in fields |-> FilterValues[k][choice[k]]] :
        choice \in {c \in [fields -> 1..3] : \A k \in fields : c[k] <= Len(FilterValues[k])}}

FilterChoices ==
    UNION {FiltersOver(fields) :
              fields \in {fs \in SUBSET DOMAIN FilterValues : Cardinality(fs) <= 2}}
    \cup {[k \in DOMAIN FilterValues |-> FilterValues[k][Len(FilterValues[k])]]}

SearchFiltered == \E f \in FilterChoices : Search([filters |-> f])

NextFilter == AddOwn \/ RemoveOwn \/ SearchFiltered

SpecFilter == Init /\ [][NextFilter]_vars

SortFields == {"name", "version", "created", "updated", "relevance"}
SortOptions ==
    {[sort |-> [field |-> f, order |-> o]] : f \in SortFields, o \in {"asc", "desc"}}
    \cup {[sort |-> [field |-> f, order |-> o], filters |-> [category |-> Str_c1]] :
             f \in SortFields, o \in {"asc", "desc"}}

SearchSorted == \E o \in SortOptions : Search(o)

NextSort == AddOwn \/ RemoveOwn \/ SearchSorted

SpecSort == Init /\ [][NextSort]_vars

-----------------------------------------------------------------------------
(* SpecBatch: a loader registers the batch in order and takes back the last *)

\* the batch has at most MaxBatch agents
MaxBatch == 25

AddNext ==
    /\ Len(agents) < MaxBatch
    /\ AddAgent(BatchId(Len(agents) + 1), BatchRef(Len(agents) + 1))
    /\ UNCHANGED ncalls

RemoveLast ==
    /\ agents # <<>>
    /\ RemoveAgent(BatchId(Len(agents)))
    /\ UNCHANGED ncalls

PageOptions ==
    {limit @@ offset @@ sort :
        limit \in {NoProps} \cup {[limit |-> l] : l \in {0, 2, 10}},
        offset \in {NoProps} \cup {[offset |-> o] : o \in {0, 5, 20, 30}},
        sort \in {NoProps}}
    \cup {[limit |-> 2, offset |-> 5, sort |-> [field |-> "name", order |-> "desc"]],
          [sort |-> [field |-> "name", order |-> "asc"]]}

SearchPage == \E o \in PageOptions : Search(o)

Str_BUG == <<"B", "U", "G">>
RecommendArgs ==
    {useCase @@ limit :
        useCase \in {[useCase |-> u] : u \in {Str_BUG, Str_fix, Str_zap, <<>>}},
        limit \in {NoProps} \cup {[limit |-> l] : l \in {0, 3}}}

RecommendAny == \E a \in RecommendArgs : Recommend(a)

NextBatch == AddNext \/ RemoveLast \/ SearchPage \/ RecommendAny

SpecBatch == Init /\ [][NextBatch]_vars

-----------------------------------------------------------------------------
(* SpecValidate: validate on an agent file of any shape *)

Str_v1_0 == <<"1", ".", "0">>
Str_v1pre == <<"1", ".", "0", ".", "0", "-", "r", "c", ".", "1">>

\* one property with each of the values, or no property
PropChoices(k, values) == {NoProps} \cup {k :> v : v \in values}

MetadataObjects ==
    {JsObject(name @@ version @@ description @@ author @@ organization
              @@ capabilities @@ internet) :
        name \in PropChoices("name", {JsString(<<>>), JsString(Str_a), JsNumber(5)}),
        version \in PropChoices("version",
                       {JsString(Str_v1), JsString(Str_v1pre), JsString(Str_v1_0),
                        JsString(<<>>), Null}),
        description \in PropChoices("description", {JsString(Str_zap), JsString(<<>>)}),
        author \in PropChoices("author", {JsString(Str_x), JsString(<<>>)}),
        organization \in PropChoices("organization", {JsString(Str_y)}),
        capabilities \in PropChoices("capabilities",
                            {JsArray(<<>>), JsArray(<<JsString(Str_x)>>),
                             JsArray(<<JsString(Str_x), JsNumber(1)>>),
                             JsString(<<>>)}),
        internet \in PropChoices("requires_internet",
                        {JsBoolean(FALSE), JsString(Str_x)})}

\* the agent files: none at all, one without metadata, one whose metadata is
\* not a mapping, one whose metadata is a mapping
AgentFiles ==
    {Undefined, Null, JsObject([content |-> JsString(<<>>)])}
    \cup {JsObject([metadata |-> m, content |-> JsString(<<>>)]) :
            m \in {Undefined, Null, JsString(Str_a), JsNumber(5), JsArray(<<>>)}
                  \cup MetadataObjects}

InitValidate ==
    /\ objs = NoProps
    /\ agents = <<>>
    /\ index = <<>>
    /\ documents = <<>>
    /\ input \in AgentFiles
    /\ last = NoCall
    /\ ncalls = 0

NextValidate == ValidateInput

SpecValidate == InitValidate /\ [][NextValidate]_vars

-----------------------------------------------------------------------------
(* SpecRoundTrip: serialize and then parse, on the agent files validate     *)
(* accepts                                                                  *)

Str_MyAgent == Chars("My Agent")
Str_2024 == Chars("2024")

RoundTripMetadata ==
    {JsObject(name @@ version @@ description @@ capabilities @@ internet
              @@ requirements) :
        name \in {"name" :> JsString(s) : s \in {Str_a, Str_MyAgent}},
        version \in PropChoices("version", {JsString(Str_v1)}),
        description \in PropChoices("description", {JsString(Str_2024)}),
        capabilities \in PropChoices("capabilities",
                            {JsArray(<<>>), JsArray(<<JsString(Str_x), JsString(Str_y)>>)}),
        internet \in PropChoices("requires_internet",
                        {JsBoolean(FALSE), JsBoolean(TRUE)}),
        requirements \in PropChoices("model_requirements",
                            {JsObject(NoProps),
                             JsObject([min_context |-> JsNumber(8192),
                                       temperature |-> JsNumber(1)])})}

\* bodies: none, one with white space at its ends, one that starts with a
\* header of its own
RoundTripContents ==
    {<<>>, Chars(" # Title\n\nText \n"), Chars("---\ntitle: t\n---\nrest")}

RoundTripFiles ==
    {f \in {JsObject([metadata |-> m, content |-> JsString(c)]) :
               m \in RoundTripMetadata, c \in RoundTripContents} :
        Validate(f).valid}

InitRoundTrip ==
    /\ objs = NoProps
    /\ agents = <<>>
    /\ index = <<>>
    /\ documents = <<>>
    /\ input \in RoundTripFiles
    /\ last = NoCall
    /\ ncalls = 0

NextRoundTrip == SerializeInput \/ ParseSerialized

SpecRoundTrip == InitRoundTrip /\ [][NextRoundTrip]_vars

-----------------------------------------------------------------------------
(* SpecVersion: the version functions of VersionManager on two strings and  *)
(* an object of change flags                                                *)

\* versions, with a pre-release or a build part, with v, = or white space
\* around them, ranges, and strings that are no version
VersionTexts ==
    { "1.0.0", "1.2.0", "1.3.0", "1.5.0", "2.0.0", "0.9.0", "10.0.0",
      "1.0.0-rc.1", "1.2.0-alpha", "1.2.0-alpha.1", "1.2.0-alpha.10",
      "1.2.0-beta", "1.2.3-alpha", "2.0.0-0", "1.2.0+build.5",
      "v1.2.0", "=1.2.0", " 1.3.0 ",
      "^1.2.0", "1.2", "01.2.0", "1.x", "latest", "" }
Versions == {Chars(s) : s \in VersionTexts}

Changes ==
    {breaking @@ features @@ fixes :
        breaking \in PropChoices("breakingChanges", {FALSE, TRUE}),
        features \in PropChoices("newFeatures", {FALSE, TRUE}),
        fixes \in PropChoices("bugFixes", {TRUE})}

InitVersion ==
    /\ objs = NoProps
    /\ agents = <<>>
    /\ index = <<>>
    /\ documents = <<>>
    /\ input \in {[v1 |-> a, v2 |-> b, changes |-> c] :
                     a \in Versions, b \in Versions, c \in Changes}
    /\ last = NoCall
    /\ ncalls = 0

NextVersion ==
    \/ CheckCompatibilityInput
    \/ SuggestVersionBumpInput
    \/ CompareVersionsInput
    \/ HasUpdateInput
    \/ ParseVersionInput

SpecVersion == InitVersion /\ [][NextVersion]_vars

-----------------------------------------------------------------------------
(* SpecModel: checkModelCompatibility on metadata with and without model    *)
(* requirements                                                             *)

Str_gpt == Chars("gpt")
Str_GPT4 == Chars("GPT-4")
Str_claude == Chars("claude")

ModelAgents ==
    {JsObject([name |-> JsString(Str_a)] @@ requirements) :
        requirements \in PropChoices("model_requirements",
            {JsObject(preferred @@ context) :
                preferred \in PropChoices("preferred_models",
                    {JsArray(<<>>), JsArray(<<JsString(Str_gpt)>>),
                     JsArray(<<JsString(Str_GPT4), JsString(Str_claude)>>)}),
                context \in PropChoices("min_context",
                    {JsNumber(0), JsNumber(4096), JsNumber(8192)})})}

ModelNames == {Chars("gpt-4-turbo"), Chars("Claude-3"), Chars("llama")}
ContextSizes == {0, 4096, 8192, 100000}

InitModel ==
    /\ objs = NoProps
    /\ agents = <<>>
    /\ index = <<>>
    /\ documents = <<>>
    /\ input \in {[agent |-> a, model |-> m, context |-> c] :
                     a \in ModelAgents, m \in ModelNames, c \in ContextSizes}
    /\ last = NoCall
    /\ ncalls = 0

NextModel == CheckModelCompatibilityInput

SpecModel == InitModel /\ [][NextModel]_vars

-----------------------------------------------------------------------------
(* SpecAlias: a caller that registers objects as it created them and then   *)
(* assigns to their properties                                              *)

AliasRefs == {1, 2}

\* the object is registered as created
AddCreated ==
    Counted /\ \E r \in AliasRefs : r \notin DOMAIN objs /\ AddAgent(OwnId[r], r)

IsRegistered(r) == ArrayIncludes(MapValues(agents), r)

\* m.version = '9.0.0', m.capabilities = ['y'], m.coding_languages = ['js']
\* on a registered object
SetVersion == \E r \in AliasRefs : IsRegistered(r) /\ CallerSets(r, "version", Str_v9)
SetCapabilities ==
    \E r \in AliasRefs : IsRegistered(r) /\ CallerSets(r, "capabilities", <<Str_y>>)
SetLanguages ==
    \E r \in AliasRefs : IsRegistered(r) /\ CallerSets(r, "coding_languages", <<Str_js>>)

SearchAlias ==
    \E o \in {[query |-> Str_bug], [filters |-> [capabilities |-> <<Str_y>>]],
              [sort |-> [field |-> "version", order |-> "asc"]]} : Search(o)
FindAlias ==
    \/ \E c \in {Str_x, Str_y} : FindByCapability(c)
    \/ \E l \in {Str_ts, Str_js} : FindByLanguage(l)
    \/ \E c \in {Str_c1, Str_c2} : FindByCategoryCall(c)
RecommendAlias == Recommend([useCase |-> Str_y])

NextAlias ==
    \/ AddCreated
    \/ SetVersion
    \/ SetCapabilities
    \/ SetLanguages
    \/ SearchAlias
    \/ FindAlias
    \/ RecommendAlias

SpecAlias == Init /\ [][NextAlias]_vars

-----------------------------------------------------------------------------
(* SpecParse: parse and parseAndValidate on documents of any shape *)

\* headers: what stands between the delimiters
Headers ==
    { "agent:\n  name: a",
      "agent:\n  name: \"My Agent\"\n  version: \"2.1.0\"\n  capabilities: [\"x\", \"y\"]",
      "agent:\n  # Required\n  name: a\n\n  tags:\n    - bug\n    - 'y'\n  description: zap # short",
      "agent:\n  name: a\n  model_requirements:\n    min_context: 8192\n    temperature: 0.1",
      "agent:\n  name: a\n  parameters:\n    max_iterations: 5",
      "agent:\n  name: a\n  requires_internet: true",
      "agent:\n  name: a\n  requires_internet: false\n  version: 1.0.0",
      "agent:\n  version: 1.0.0",
      "agent:\n  name: a\ntitle: t",
      "agent: x",
      "agent:",
      "agent: \"\"",
      "agent: []",
      "name: a\nversion: 1.0.0",
      "Agent:\n  name: a",
      "hello",
      "- agent\n- name",
      "# nothing here",
      "",
      "agent:\n  name: a\n bad: 1",
      "agent:\n  name: a\n  name: b",
      "agent:\n  name: [a" }

\* bodies: what follows the closing delimiter
Bodies == {"", "body", "\n  # Title\n\nText \n\n", "---\nmore"}

Document(header, body) == Chars("---\n" \o header \o "\n---\n" \o body)

\* documents with a header, and documents without one or with another opening
Texts ==
    {Document(h, b) : h \in Headers, b \in Bodies}
    \cup {Chars(s) : s \in
            {"", "body", "agent:\n  name: a\n", " ---\nagent:\n  name: a\n---\nbody",
             "----\nagent:\n  name: a\n----\nbody", "---",
             "---\nagent:\n  name: a", "---yaml\nagent:\n  name: a\n---\nbody",
             "---toml\nagent:\n  name: a\n---\nbody",
             "--- \nagent:\n  name: a\n---\nbody",
             "---\nagent:\n  name: a\n---"}}

Str_path == Chars("a.agent")

ParseInputs ==
    {[content |-> c] : c \in Texts}
    \cup {[content |-> c, filePath |-> JsString(Str_path)] : c \in Texts}

InitParse ==
    /\ objs = NoProps
    /\ agents = <<>>
    /\ index = <<>>
    /\ documents = <<>>
    /\ input \in ParseInputs
    /\ last = NoCall
    /\ ncalls = 0

NextParse == ParseInput \/ ParseAndValidateInput

SpecParse == InitParse /\ [][NextParse]_vars

-----------------------------------------------------------------------------
(* SpecRepeat: two ids, any of the four objects, and every query of the    *)
(* engine, so that a call can follow the same call                         *)

RepeatIds == {Id_k1, Id_a_latest}

AddRepeat == Counted /\ \E id \in RepeatIds, r \in Refs : AddAgent(id, r)
RemoveRepeat == Counted /\ \E id \in RepeatIds : RemoveAgent(id)
SearchRepeat ==
    \E o \in {[query |-> Str_bug], [query |-> Str_a],
              [filters |-> [capabilities |-> <<Str_y>>]],
              [sort |-> [field |-> "name", order |-> "desc"]]} : Search(o)
FindRepeat ==
    \/ \E c \in {Str_x, Str_y} : FindByCapability(c)
    \/ FindByLanguage(Str_ts)
    \/ \E c \in {Str_c1, Str_c2} : FindByCategoryCall(c)
RecommendRepeat ==
    \E a \in {[useCase |-> Str_bug], [useCase |-> Str_zap, limit |-> 1]} : Recommend(a)

NextRepeat ==
    \/ AddRepeat
    \/ RemoveRepeat
    \/ SearchRepeat
    \/ FindRepeat
    \/ RecommendRepeat

SpecRepeat == Init /\ [][NextRepeat]_vars

-----------------------------------------------------------------------------
(* SpecIndex: each object under an id of its own or under the id k1, and    *)
(* queries of a part of a word, of a word twice, of two words, of words     *)
(* with white space before and between them, and of a word no text has      *)

Str_u == <<"u">>
IndexQueries ==
    {Str_u, Str_bug \o <<" ">> \o Str_bug, Str_x \o <<" ">> \o Str_y,
     <<" ">> \o Str_zap, Str_fix \o <<" ", " ">> \o Str_a, Str_d1}

AddIndexed ==
    Counted /\ \E r \in Refs : \E id \in {OwnId[r], Id_k1} : AddAgent(id, r)
SearchIndexQuery == \E q \in IndexQueries : Search([query |-> q])

NextIndex == AddIndexed \/ RemoveOwn \/ SearchIndexQuery

SpecIndex == Init /\ [][NextIndex]_vars

-----------------------------------------------------------------------------
(* SpecNormalize: normalizeMetadata on objects with a name and up to two    *)
(* lists, with items that come twice, in and out of order, in upper and     *)
(* lower case                                                                *)

Str_B == <<"B">>
ListNames == {"capabilities", "tags", "use_cases", "dependencies", "integrations", "apis"}
Lists ==
    {JsArray(<<>>),
     JsArray(<<JsString(Str_b), JsString(Str_a), JsString(Str_b)>>),
     JsArray(<<JsString(Str_a), JsString(Str_B), JsString(Str_a \o Str_b)>>),
     JsArray(<<JsString(Str_x), JsString(Str_y)>>),
     JsString(<<" ">> \o Str_b \o <<" ">>)}
NormalizeInputs ==
    {name @@ one @@ two :
        name \in {[name |-> JsString(Str_a)], [name |-> JsString(Str_BugSp)]},
        one \in UNION {PropChoices(k, Lists) : k \in ListNames},
        two \in UNION {PropChoices(k, Lists) : k \in ListNames}}

InitNormalize ==
    /\ objs = NoProps
    /\ agents = <<>>
    /\ index = <<>>
    /\ documents = <<>>
    /\ input \in NormalizeInputs
    /\ last = NoCall
    /\ ncalls = 0

NextNormalize == NormalizeInput \/ NormalizeResult

SpecNormalize == InitNormalize /\ [][NextNormalize]_vars

-----------------------------------------------------------------------------
(* SpecRelevance: each object under an id of its own, and text queries     *)
(* sorted by relevance                                                       *)

RelevanceOptions ==
    {[query |-> q, sort |-> [field |-> "relevance", order |-> o]] :
        q \in {Str_bugfix, Str_zap \o <<" ">> \o Str_bug, Str_y}, o \in {"asc", "desc"}}

SearchRelevance == \E o \in RelevanceOptions : Search(o)

NextRelevance == AddOwn \/ RemoveOwn \/ SearchRelevance

SpecRelevance == Init /\ [][NextRelevance]_vars

-----------------------------------------------------------------------------
(* SpecDeclared: each object under an id of its own, and filters on the     *)
(* fields SearchFilters declares besides those of SpecFilter                *)

DeclaredFilters ==
    {[tags |-> <<Str_bug>>], [tags |-> <<Str_x, Str_y>>],
     [industries |-> <<Str_x>>], [author |-> Str_a], [organization |-> Str_b],
     [tags |-> <<Str_bug>>, category |-> Str_c1],
     [author |-> Str_a, capabilities |-> <<Str_y>>]}

SearchDeclared == \E f \in DeclaredFilters : Search([filters |-> f])

NextDeclared == AddOwn \/ RemoveOwn \/ SearchDeclared

SpecDeclared == Init /\ [][NextDeclared]_vars

-----------------------------------------------------------------------------
(* The claims *)

PostingSet(idx, token) ==
    IF MapHas(idx, token) THEN SeqRange(MapGet(idx, token)) ELSE {}

IndexTokens(idx) == SeqRange(MapKeys(idx))

TokensOf(metadata) == SeqRange(Tokenize(SearchableText(metadata)))

Registered(id) == MapHas(agents, id)

\* C1: after addAgent(id, m1) followed by addAgent(id, m2), id is in the
\* posting set of a token exactly when the token is a token of m2's
\* searchable text.
C1_ReAddReplacesPostings ==
    (last.op = "addAgent" /\ last.again) =>
        \A token \in IndexTokens(index) \cup TokensOf(Deref(objs, last.ref)) :
            last.id \in PostingSet(index, token)
                <=> token \in TokensOf(Deref(objs, last.ref))

\* C2: after removeAgent(id), and for as long as id is not added again, id
\* is in no posting set, in neither map, and in the result of no index
\* search.
C2_RemovedIdIsGone ==
    /\ last.op = "removeAgent" => ~ Registered(last.id)
    /\ \A id \in AgentIds :
           ~ Registered(id) =>
               /\ \A token \in IndexTokens(index) : id \notin PostingSet(index, token)
               /\ ~ MapHas(documents, id)
               /\ \A q \in Queries : ~ ArrayIncludes(IndexSearch(index, q), id)

\* a registered id that had been added twice was removed, and another agent
\* is still registered and indexed
C2_Witness ==
    /\ last.op = "removeAgent" /\ last.was /\ ncalls = 3
    /\ agents # <<>> /\ index # <<>>

\* the synthetic id in the words of the specification
SyntheticId(metadata) ==
    IF Has(metadata, "version")
    THEN metadata.name \o <<"-">> \o metadata.version
    ELSE metadata.name \o <<"-">> \o Str_latest

\* C3: with a non-empty query, the agents before the filters are exactly
\* the registered agents whose synthetic id is among the ids the index
\* search returns for the query.
C3_QueryMatchesBySyntheticId ==
    (last.op = "search" /\ HasQuery(last.options)) =>
        LET ids == SeqRange(IndexSearch(index, last.options.query))
            Keep(r) == SyntheticId(Deref(objs, r)) \in ids
        IN /\ last.run.searchIds = IndexSearch(index, last.options.query)
           /\ last.run.matched = SelectSeq(MapValues(agents), Keep)

\* a query matched one agent and not another, and the agent it matched was
\* registered under an id the index search did not return
C3_Witness ==
    /\ last.op = "search" /\ HasQuery(last.options)
    /\ last.run.matched # <<>>
    /\ Len(last.run.matched) < Len(agents)
    /\ \E i \in 1..Len(agents) :
           /\ ArrayIncludes(last.run.matched, agents[i].val)
           /\ ~ ArrayIncludes(last.run.searchIds, agents[i].key)

\* what one filter field asks of an agent, in the words of the
\* specification; an empty list and an empty category ask nothing
FieldSatisfied(agent, filters, k) ==
    CASE k \in {"capabilities", "coding_languages", "frameworks"} ->
             \/ filters[k] = <<>>
             \/ Has(agent, k) /\ SeqRange(agent[k]) \cap SeqRange(filters[k]) # {}
      [] k = "category" ->
             \/ filters[k] = <<>>
             \/ Has(agent, k) /\ agent[k] = filters[k]
      [] OTHER -> Has(agent, k) /\ agent[k] = filters[k]

\* C4: a search with filters returns exactly the agents that satisfy every
\* filter field that is set: one of the listed values for capabilities,
\* coding_languages and frameworks, the same value for category, difficulty
\* and requires_internet, the explicit value false included.
C4_FiltersAndAcrossOrWithin ==
    (last.op = "search" /\ Has(last.options, "filters")) =>
        LET filters == last.options.filters
            Keep(r) == \A k \in DOMAIN filters :
                           FieldSatisfied(Deref(objs, r), filters, k)
        IN /\ last.run.filtered = SelectSeq(MapValues(agents), Keep)
           /\ last.run.result.agents = last.run.filtered
           /\ last.run.result.total = Len(last.run.filtered)

\* of three agents, the filter requires_internet = false with capabilities
\* x or y keeps the one whose requires_internet is false, and neither the
\* one with true nor the one that leaves the field unset
C4_Witness ==
    /\ last.op = "search"
    /\ last.options =
           [filters |-> [capabilities |-> <<Str_x, Str_y>>, requires_internet |-> FALSE]]
    /\ SeqRange(MapValues(agents)) = {1, 2, 3}
    /\ last.run.result.agents = <<1>>


\* C5: with limit L >= 1 and offset O >= 0 (20 and 0 when omitted), agents
\* is positions O to O+L-1 of the list before slicing, total the length of
\* that list, page floor(O/L)+1 and pageSize L.
C5_Pagination ==
    last.op = "search" =>
        LET L == IF Has(last.options, "limit") THEN last.options.limit ELSE 20
            O == IF Has(last.options, "offset") THEN last.options.offset ELSE 0
            list == last.run.sorted
            res == last.run.result
            n == Min(L, Max(0, Len(list) - O))
        IN (L >= 1 /\ O >= 0) =>
               /\ Len(list) = Len(agents)
               /\ res.total = Len(list)
               /\ Len(res.agents) = n
               /\ \A i \in 1..n : res.agents[i] = list[O + i]
               /\ res.page = (O \div L) + 1
               /\ res.pageSize = L

\* 25 agents, limit 10, offset 20: the last 5 agents, page 3 of pages of 10
C5_Witness ==
    /\ last.op = "search"
    /\ last.options = [limit |-> 10, offset |-> 20]
    /\ Len(agents) = 25
    /\ last.run.result =
           [agents |-> [i \in 1..5 |-> BatchRef(20 + i)], total |-> 25,
            page |-> 3, pageSize |-> 10]

\* the comparison that takes the letters without their case, in the order
\* space, '-', '.', digits, letters, and falls back on the case, lower
\* first, for two strings with the same letters
FoldedRank(ch) ==
    LET code == CodeOf(ch) IN IF code \in 14..39 THEN code + 26 ELSE code
CollationLeq(s, u) ==
    /\ LexLeq(s, u, FoldedRank)
    /\ LexLeq(u, s, FoldedRank) => LexLeq(u, s, CodeOf)

FieldOrEmpty(agent, k) == IF Has(agent, k) THEN agent[k] ELSE <<>>

Occurrences(s, x) == Cardinality({i \in 1..Len(s) : s[i] = x})

\* the list before slicing is the filtered list reordered along Leq on the
\* sort field, and the search leaves total and the registered agents alone
SortedAlong(Leq(_, _)) ==
    LET sort == last.options.sort
        list == last.run.sorted
        Key(i) == FieldOrEmpty(Deref(objs, list[i]), sort.field)
    IN /\ Len(list) = Len(last.run.filtered)
       /\ \A r \in SeqRange(list) \cup SeqRange(last.run.filtered) :
              Occurrences(list, r) = Occurrences(last.run.filtered, r)
       /\ \A i, j \in 1..Len(list) :
              i < j => IF sort.order = "asc" THEN Leq(Key(i), Key(j))
                       ELSE Leq(Key(j), Key(i))
       /\ last.run.result.total = Len(last.run.filtered)
       /\ ~HasQuery(last.options) => last.run.matched = MapValues(agents)

SortsByField ==
    /\ last.op = "search"
    /\ Has(last.options, "sort")
    /\ last.options.sort.field \in {"name", "version", "created", "updated"}

\* C6, as stated: sorted by name, version, created or updated, the list
\* before slicing is a permutation of the filtered list in the plain string
\* order of the field (a missing field is the empty string), non-decreasing
\* for asc and non-increasing for desc; total and the registration order
\* are unchanged.
C6_PlainStringOrder == SortsByField => SortedAlong(PlainLeq)

\* C6, amended: the order is the one of the locale's collation, which takes
\* letters without their case (lower case first between equal letters), not
\* the one of the character codes; the rest as stated.
C6_CollationOrder == SortsByField => SortedAlong(CollationLeq)

\* by name ascending, a and b come before C, which comes first by its code
C6_Witness ==
    /\ last.op = "search"
    /\ last.options = [sort |-> [field |-> "name", order |-> "asc"]]
    /\ MapValues(agents) = <<4, 2, 1>>
    /\ last.run.sorted = <<1, 2, 4>>

\* the score in the words of the specification
ContainsIgnoringCase(s, sub) == Includes(ToLowerCase(s), ToLowerCase(sub))
SomeContains(agent, k, sub) ==
    Has(agent, k) /\ \E x \in SeqRange(agent[k]) : ContainsIgnoringCase(x, sub)
ClaimedScore(agent, useCase) ==
    (IF SomeContains(agent, "use_cases", useCase) THEN 10 ELSE 0)
    + (IF SomeContains(agent, "capabilities", useCase) THEN 5 ELSE 0)
    + (IF Has(agent, "description")
          /\ ContainsIgnoringCase(agent.description, useCase) THEN 3 ELSE 0)
    + (IF SomeContains(agent, "tags", useCase) THEN 2 ELSE 0)

\* C7: getRecommendations scores each agent 10 + 5 + 3 + 2 for use_cases,
\* capabilities, description and tags that contain useCase, and returns the
\* agents that score above 0, by non-increasing score, cut to limit (5 when
\* omitted): no agent left out scores above one returned.
C7_Recommendations ==
    last.op = "getRecommendations" =>
        LET useCase == last.args.useCase
            limit == IF Has(last.args, "limit") THEN last.args.limit ELSE 5
            rec == last.recommended
            Score(r) == ClaimedScore(Deref(objs, r), useCase)
            positive == {r \in SeqRange(MapValues(agents)) : Score(r) > 0}
        IN /\ SeqRange(MapKeys(last.scores)) = positive
           /\ \A i \in 1..Len(last.scores) :
                  last.scores[i].val = Score(last.scores[i].key)
           /\ SeqRange(rec) \subseteq positive
           /\ \A i, j \in 1..Len(rec) : i < j => Score(rec[i]) >= Score(rec[j])
           /\ \A i, j \in 1..Len(rec) : i # j => rec[i] # rec[j]
           /\ Len(rec) = Min(limit, Cardinality(positive))
           /\ \A r \in positive \ SeqRange(rec) :
                  \A i \in 1..Len(rec) : Score(rec[i]) >= Score(r)

\* seven agents, six of which score: without a limit the five returned are
\* the two that score 10 and the first three that score 5
C7_Witness ==
    /\ last.op = "getRecommendations"
    /\ last.args = [useCase |-> Str_BUG]
    /\ Len(agents) = 7
    /\ Len(last.scores) = 6
    /\ last.recommended =
           <<BatchRef(1), BatchRef(5), BatchRef(2), BatchRef(3), BatchRef(6)>>

\* the metadata of the agent file validated, if there is one to read
Validated == last.op = "validate"
HasMetadata ==
    /\ input.t = "object" /\ Has(input.props, "metadata")
    /\ input.props.metadata.t \notin {"undefined", "null"}

\* C8: for every result of validate, valid is true if and only if errors is
\* empty, whatever the warnings are.
C8_ValidIffNoErrors ==
    (Validated /\ last.result.outcome = "returned") =>
        (last.result.valid <=> last.result.errors = <<>>)

\* a valid result with four warnings
C8_Witness ==
    /\ Validated
    /\ last.result.outcome = "returned"
    /\ last.result.valid
    /\ Len(last.result.warnings) = 4

\* validate returns whatever the agent file, and a failure inside it gives
\* valid = false
NeverThrows ==
    /\ last.result.outcome = "returned"
    /\ last.result.caught <=> ~HasMetadata
    /\ last.result.caught => ~last.result.valid

\* C9, as stated: validate never throws, and an internal failure yields
\* valid = false with an errors list that is a single generic error on
\* field agent.
C9_SingleGenericError ==
    Validated =>
        /\ NeverThrows
        /\ last.result.caught =>
               /\ Len(last.result.errors) = 1
               /\ last.result.errors[1].field = "agent"

\* C9, amended: validate never throws, and an internal failure yields
\* valid = false with an errors list that ends with a single generic error
\* on field agent, after the error the schema gave on the metadata (field
\* ''), if the schema was reached.
C9_GenericErrorLast ==
    Validated =>
        /\ NeverThrows
        /\ last.result.caught =>
               LET errors == last.result.errors
                   n == Len(errors)
               IN /\ n = (IF input.t = "object" THEN 2 ELSE 1)
                  /\ errors[n].field = "agent"
                  /\ \A i \in 1..(n - 1) : errors[i].field = ""
                  /\ last.result.warnings = <<>>

\* metadata null: the schema's error, then the generic error
C9_Witness ==
    /\ Validated
    /\ input.t = "object" /\ Has(input.props, "metadata")
    /\ input.props.metadata = Null
    /\ last.result.outcome = "returned"
    /\ ~last.result.valid
    /\ Len(last.result.errors) = 2
    /\ last.result.errors[1] =
           [field |-> "", message |-> "Expected object, received null"]
    /\ last.result.errors[2].field = "agent"

\* a field of the metadata is missing: absent, null or empty
Missing(k) ==
    LET metadata == input.props.metadata
    IN \/ metadata.t # "object"
       \/ ~Has(metadata.props, k)
       \/ metadata.props[k].t = "null"
       \/ metadata.props[k].t = "string" /\ metadata.props[k].str = <<>>

PresentButEmpty(k) ==
    LET metadata == input.props.metadata
    IN /\ metadata.t = "object"
       /\ Has(metadata.props, k)
       /\ metadata.props[k].t = "array"
       /\ metadata.props[k].items = <<>>

WarningDue(field) ==
    CASE field = "version" -> Missing("version")
      [] field = "description" -> Missing("description")
      [] field = "author" -> Missing("author") /\ Missing("organization")
      [] field = "capabilities" -> PresentButEmpty("capabilities")

NameOnly ==
    /\ input.props.metadata.t = "object"
    /\ DOMAIN input.props.metadata.props = {"name"}
    /\ input.props.metadata.props.name.t = "string"
    /\ input.props.metadata.props.name.str # <<>>

\* C10: for metadata that validate can read, there is exactly one warning,
\* with a suggestion, for each condition that holds and no other warning:
\* version missing, description missing, author and organization both
\* missing (field author), capabilities present but empty; metadata that is
\* a valid name and nothing else is valid with exactly 3 warnings.
C10_OneWarningPerCondition ==
    (Validated /\ HasMetadata) =>
        LET warnings == last.result.warnings
            Count(field) ==
                Cardinality({i \in 1..Len(warnings) : warnings[i].field = field})
        IN /\ \A field \in {"version", "description", "author", "capabilities"} :
                  Count(field) = (IF WarningDue(field) THEN 1 ELSE 0)
           /\ \A i \in 1..Len(warnings) :
                  /\ warnings[i].field \in
                         {"version", "description", "author", "capabilities"}
                  /\ warnings[i].suggestion # ""
           /\ NameOnly => last.result.valid /\ Len(warnings) = 3

\* a name and nothing else: valid, warned about version, description, author
C10_Witness ==
    /\ Validated
    /\ HasMetadata
    /\ NameOnly
    /\ last.result.valid
    /\ [i \in 1..Len(last.result.warnings) |-> last.result.warnings[i].field]
           = <<"version", "description", "author">>

\* the metadata validated is a mapping whose name is absent or empty
NameAbsentOrEmpty ==
    /\ HasMetadata
    /\ input.props.metadata.t = "object"
    /\ \/ ~Has(input.props.metadata.props, "name")
       \/ input.props.metadata.props.name = JsString(<<>>)

\* C11: validate on metadata whose name is absent or is the empty string
\* returns valid = false with an error whose field is name, whatever the
\* other fields hold.
C11_NameRequired ==
    (Validated /\ NameAbsentOrEmpty) =>
        /\ last.result.outcome = "returned"
        /\ ~last.result.valid
        /\ \E i \in 1..Len(last.result.errors) :
               last.result.errors[i].field = "name"

\* an empty name beside a good version, description, author and
\* capabilities: the one error is the one on name
C11_Witness ==
    /\ Validated
    /\ NameAbsentOrEmpty
    /\ Has(input.props.metadata.props, "name")
    /\ Has(input.props.metadata.props, "version")
    /\ ~last.result.valid
    /\ last.result.errors =
           <<[field |-> "name", message |-> "Agent name is required"]>>
    /\ last.result.warnings = <<>>

\* the header of the text parsed, decoded, has no top-level agent key: it is
\* no mapping, or a mapping without the key, or there is no header
Parsed == last.op = "parse"
NoAgentKey ==
    /\ ~Matter(input.content).threw
    /\ \/ Matter(input.content).data.t # "object"
       \/ ~Has(Matter(input.content).data.props, "agent")

\* c is s without the white space at its two ends
IsTrimOf(c, s) ==
    /\ c # <<>> => ~IsSpace(c[1]) /\ ~IsSpace(c[Len(c)])
    /\ \E i \in 0..Len(s) :
           /\ i + Len(c) <= Len(s)
           /\ SubSeq(s, i + 1, i + Len(c)) = c
           /\ \A j \in (1..i) \cup ((i + Len(c) + 1)..Len(s)) : IsSpace(s[j])

C13_RoundTrip ==
    last.op = "parseSerialized" =>
        /\ last.result.outcome = "returned"
        /\ last.result.value.props.metadata = input.props.metadata
        /\ last.result.value.props.content.str = Trim(input.props.content.str)

\* headers with a name that write a number or a boolean where the schema
\* wants one
TypedHeaders ==
    { "agent:\n  name: a\n  model_requirements:\n    min_context: 8192\n    temperature: 0.1",
      "agent:\n  name: a\n  parameters:\n    max_iterations: 5",
      "agent:\n  name: a\n  requires_internet: true",
      "agent:\n  name: a\n  requires_internet: false\n  version: 1.0.0" }

\* C14: a well-formed document whose header gives a non-empty name and
\* writes min_context as a positive integer, temperature as a number in
\* [0,2], max_iterations as a positive integer or requires_internet as true
\* or false passes parseAndValidate with valid = true.
C14_TypedDocumentIsValid ==
    (/\ last.op = "parseAndValidate"
     /\ input.content \in {Document(h, b) : h \in TypedHeaders, b \in Bodies}) =>
        /\ last.result.outcome = "returned"
        /\ last.result.value.validation.valid

\* a string the version functions take for a version: a semantic version,
\* with white space around it or = or v before it or not
IsVersion(s) ==
    LET t == StripLeading(Trim(s), {"=", "v"})
    IN IsSemver(IF t # <<>> /\ Head(t) = "v" THEN Tail(t) ELSE t)
\* the parts of such a string
PartsOf(s) == SemVer(StripLeading(Trim(s), {"=", "v"}))
CheckedCompatibility ==
    last.op = "checkCompatibility" /\ IsVersion(input.v1) /\ IsVersion(input.v2)

\* C15: for two strings that are versions, checkCompatibility(required,
\* provided) answers compatible if provided satisfies required (has its
\* precedence); otherwise, if the majors differ, incompatible with a reason
\* naming both majors and suggestedVersion '<requiredMajor>.x.x'; otherwise,
\* if provided < required, incompatible as too old with suggestedVersion
\* the required string; otherwise compatible.
C15_CompatibilityOrder ==
    CheckedCompatibility =>
        LET required == PartsOf(input.v1)
            provided == PartsOf(input.v2)
            r == last.result
        IN IF CompareParsed(provided, required) = 0 THEN r = [compatible |-> TRUE]
           ELSE IF required.major # provided.major
           THEN /\ DOMAIN r = {"compatible", "reason", "suggestedVersion"}
                /\ ~r.compatible
                /\ StartsWith(r.reason, Chars("Major version mismatch"))
                /\ Includes(r.reason, Chars("required v") \o NumberText(required.major))
                /\ Includes(r.reason, Chars("provided v") \o NumberText(provided.major))
                /\ r.suggestedVersion = NumberText(required.major) \o Chars(".x.x")
           ELSE IF CompareParsed(provided, required) < 0
           THEN /\ DOMAIN r = {"compatible", "reason", "suggestedVersion"}
                /\ ~r.compatible
                /\ StartsWith(r.reason, Chars("Version too old"))
                /\ r.suggestedVersion = input.v1
           ELSE r = [compatible |-> TRUE]

\* a provided version of a lower major than the required one: the majors
\* are named, not the age
C15_Witness ==
    /\ last.op = "checkCompatibility"
    /\ input.v1 = Chars("2.0.0") /\ input.v2 = Chars("1.5.0")
    /\ last.result.reason
           = Chars("Major version mismatch: required v2, provided v1")
    /\ last.result.suggestedVersion = Chars("2.x.x")

\* C16: checkCompatibility reads required as a range: with required a range
\* such as '^1.2.0' and provided a version in it such as '1.3.0', the answer
\* is compatible.
C16_RequiredIsARange ==
    (/\ last.op = "checkCompatibility"
     /\ input.v1 # <<>> /\ Head(input.v1) = "^"
     /\ IsVersion(input.v2)
     /\ Satisfies(Trim(input.v2), input.v1)) =>
        last.result.compatible

\* C17: on a string that is no version, hasUpdate returns false, parseVersion
\* null, checkCompatibility compatible = false with the invalid-format
\* reason and no suggestedVersion, and compareVersions and suggestVersionBump
\* throw; on two versions hasUpdate(current, latest) is true exactly when
\* current < latest.
C17_InvalidVersions ==
    LET bad1 == ~IsVersion(input.v1)
        bad == bad1 \/ ~IsVersion(input.v2)
    IN /\ last.op = "hasUpdate" =>
              last.result = (/\ ~bad
                             /\ CompareParsed(PartsOf(input.v1), PartsOf(input.v2)) < 0)
       /\ (last.op = "parseVersion" /\ bad1) => last.result = Null
       /\ (last.op = "checkCompatibility" /\ bad) =>
              last.result = [compatible |-> FALSE,
                             reason |-> Chars("Invalid version format")]
       /\ (last.op = "compareVersions" /\ bad) => last.result.outcome = "threw"
       /\ (last.op = "suggestVersionBump" /\ bad1) => last.result.outcome = "threw"

\* hasUpdate on a string that is no version
C17_Witness ==
    /\ last.op = "hasUpdate"
    /\ input.v1 = Chars("1.2") /\ input.v2 = Chars("1.3.0")
    /\ last.result = FALSE

Bumped == last.op = "suggestVersionBump" /\ IsVersion(input.v1)
Flag(k) == Has(input.changes, k) /\ input.changes[k]
ExpectedUpdateType ==
    IF Flag("breakingChanges") THEN "major"
    ELSE IF Flag("newFeatures") THEN "minor" ELSE "patch"
VersionText(major, minor, patch) ==
    NumberText(major) \o <<".">> \o NumberText(minor) \o <<".">> \o NumberText(patch)

\* C18 as stated: for every current version, pre-releases included,
\* updateType is major if breakingChanges is set, else minor if newFeatures
\* is set, else patch; newVersion is current with that part one higher, the
\* lower parts 0 and no pre-release or build part; the returned
\* breakingChanges is the flag given, false when absent.
C18_ComponentPlusOne ==
    Bumped =>
        LET v == PartsOf(input.v1)
            r == last.result.value
        IN /\ last.result.outcome = "returned"
           /\ r.updateType = ExpectedUpdateType
           /\ r.breakingChanges = Flag("breakingChanges")
           /\ r.newVersion =
                  CASE r.updateType = "major" -> VersionText(v.major + 1, 0, 0)
                    [] r.updateType = "minor" -> VersionText(v.major, v.minor + 1, 0)
                    [] r.updateType = "patch" ->
                           VersionText(v.major, v.minor, v.patch + 1)

\* C18 amended: the same, but a pre-release of the version the step leads
\* to becomes that version: the part is not raised when the current version
\* is a pre-release and all lower parts are 0.
C18_StandardIncrement ==
    Bumped =>
        LET v == PartsOf(input.v1)
            r == last.result.value
            pre == v.prerelease # <<>>
        IN /\ last.result.outcome = "returned"
           /\ r.updateType = ExpectedUpdateType
           /\ r.breakingChanges = Flag("breakingChanges")
           /\ r.newVersion =
                  CASE r.updateType = "major" ->
                           IF pre /\ v.minor = 0 /\ v.patch = 0
                           THEN VersionText(v.major, 0, 0)
                           ELSE VersionText(v.major + 1, 0, 0)
                    [] r.updateType = "minor" ->
                           IF pre /\ v.patch = 0
                           THEN VersionText(v.major, v.minor, 0)
                           ELSE VersionText(v.major, v.minor + 1, 0)
                    [] r.updateType = "patch" ->
                           IF pre THEN VersionText(v.major, v.minor, v.patch)
                           ELSE VersionText(v.major, v.minor, v.patch + 1)

\* a minor step from a pre-release of 1.2.0 with both flags off but bugFixes
C18_Witness ==
    /\ last.op = "suggestVersionBump"
    /\ input.v1 = Chars("1.2.0-alpha.1")
    /\ input.changes = [newFeatures |-> TRUE, bugFixes |-> TRUE]
    /\ last.result.value.updateType = "minor"
    /\ last.result.value.newVersion = Chars("1.2.0")
    /\ last.result.value.breakingChanges = FALSE

\* C19: checkModelCompatibility adds a preferred-model issue only when
\* preferred_models is non-empty and no entry is, letters taken without
\* their case, part of the model name (an absent or empty list adds none),
\* adds a context issue exactly when min_context is set and contextSize is
\* below it, and returns compatible exactly when there is no issue; metadata
\* without model_requirements yields no issue.
C19_ModelIssues ==
    last.op = "checkModelCompatibility" =>
        LET requirements ==
                IF Has(input.agent.props, "model_requirements")
                THEN input.agent.props.model_requirements.props ELSE NoProps
            preferred == IF Has(requirements, "preferred_models")
                         THEN requirements.preferred_models.items ELSE <<>>
            modelIssue ==
                /\ preferred # <<>>
                /\ \A i \in 1..Len(preferred) :
                       ~Includes(ToLowerCase(input.model),
                                 ToLowerCase(preferred[i].str))
            contextIssue ==
                /\ Has(requirements, "min_context")
                /\ input.context < requirements.min_context.num
            issues == last.result.issues
        IN /\ Len(issues) = (IF modelIssue THEN 1 ELSE 0)
                            + (IF contextIssue THEN 1 ELSE 0)
           /\ modelIssue <=> \E i \in 1..Len(issues) :
                                 StartsWith(issues[i], Chars("Model "))
           /\ contextIssue <=> \E i \in 1..Len(issues) :
                                   StartsWith(issues[i], Chars("Insufficient context"))
           /\ last.result.compatible <=> issues = <<>>

\* the objects of a list of references as the heap has them
ValuesOf(heap, refs) == [i \in 1..Len(refs) |-> Deref(heap, refs[i])]

\* C20: the engine holds its own copy of registered metadata: after
\* addAgent(id, m), a change the caller makes to m later does not change
\* what a later search, findBy* or getRecommendations call returns: each
\* returns what it returns for the objects as they were registered.
C20_EngineOwnsCopies ==
    /\ last.op = "search" =>
           LET kept == SearchRun(NoProps, agents, index, last.options).result
           IN /\ ValuesOf(objs, last.run.result.agents) = ValuesOf(NoProps, kept.agents)
              /\ last.run.result.total = kept.total
    /\ last.op = "findByCapability" =>
           ValuesOf(objs, last.found)
               = ValuesOf(NoProps, FindByList(NoProps, agents, "capabilities", last.arg))
    /\ last.op = "findByLanguage" =>
           ValuesOf(objs, last.found)
               = ValuesOf(NoProps, FindByList(NoProps, agents, "coding_languages", last.arg))
    /\ last.op = "findByCategory" =>
           ValuesOf(objs, last.found)
               = ValuesOf(NoProps, FindByCategory(NoProps, agents, last.arg))
    /\ last.op = "getRecommendations" =>
           ValuesOf(objs, last.recommended)
               = ValuesOf(NoProps, GetRecommendations(NoProps, agents, last.args.useCase,
                                                      DefaultRecommendations))


\* C21: removeAgent(id) for an id that is not registered leaves the map of
\* the agents, the map of the documents and every posting set of the index
\* as they were.
C21_RemoveUnregisteredIsNoOp ==
    [][(last'.op = "removeAgent" /\ ~ MapHas(agents, last'.id))
           => (agents' = agents /\ documents' = documents /\ index' = index)]_vars

\* an id that is not registered was removed while an agent is registered
\* whose tokens are in the index
C21_Witness ==
    /\ last.op = "removeAgent" /\ ~ last.was
    /\ agents # <<>> /\ index # <<>>
    /\ \E token \in IndexTokens(index) : Cardinality(PostingSet(index, token)) = 1


\* the state of the engine: the agents, the index with its documents, and
\* the metadata objects
EngineUnchanged == UNCHANGED <<agents, documents, index, objs>>

\* what the query of last returns when it is called on the state as it is
\* after the step
ReturnsAgain ==
    CASE last'.op = "search" ->
             last'.run = SearchRun(objs', agents', index', last'.options)
      [] last'.op = "findByCapability" ->
             last'.found = FindByList(objs', agents', "capabilities", last'.arg)
      [] last'.op = "findByLanguage" ->
             last'.found = FindByList(objs', agents', "coding_languages", last'.arg)
      [] last'.op = "findByCategory" ->
             last'.found = FindByCategory(objs', agents', last'.arg)
      [] last'.op = "getRecommendations" ->
             last'.recommended =
                 GetRecommendations(objs', agents', last'.args.useCase,
                                    IF Has(last'.args, "limit")
                                    THEN last'.args.limit
                                    ELSE DefaultRecommendations)
      [] OTHER -> TRUE

Queried(call) ==
    call.op \in {"search", "findByCapability", "findByLanguage", "findByCategory",
                 "getRecommendations"}

QueryTokens(query) == Tokenize(ToLowerCase(query))

\* the ids of the posting sets
IndexIds(idx) == UNION {SeqRange(idx[i].val) : i \in 1..Len(idx)}

\* the points of the claim: 2 for each query token that is an index token
\* of the document, 1 for each pair of a query token and an index token of
\* the document that contains it
Points(idx, tokens, id) ==
    2 * Cardinality({p \in 1..Len(tokens) : id \in PostingSet(idx, tokens[p])})
    + Cardinality({pi \in (1..Len(tokens)) \X (1..Len(idx)) :
                      /\ Includes(idx[pi[2]].key, tokens[pi[1]])
                      /\ id \in SeqRange(idx[pi[2]].val)})

\* the places where a document receives points, in the order of the walk:
\* the query token, the exact match (0) before the partial matches (1),
\* the index token, the place in the posting set
ScoredAt(idx, tokens, id) ==
    LET places == 1..Cardinality(IndexIds(idx))
        exact == {e \in (1..Len(tokens)) \X {0} \X {0} \X places :
                     /\ MapHas(idx, tokens[e[1]])
                     /\ e[4] <= Len(MapGet(idx, tokens[e[1]]))
                     /\ MapGet(idx, tokens[e[1]])[e[4]] = id}
        partial == {e \in (1..Len(tokens)) \X {1} \X (1..Len(idx)) \X places :
                       /\ Includes(idx[e[3]].key, tokens[e[1]])
                       /\ e[4] <= Len(idx[e[3]].val)
                       /\ idx[e[3]].val[e[4]] = id}
    IN exact \cup partial

Earlier(e, f) ==
    \E k \in 1..4 : e[k] < f[k] /\ \A h \in 1..(k - 1) : e[h] = f[h]

FirstScoredBefore(idx, tokens, a, b) ==
    \E e \in ScoredAt(idx, tokens, a) : \A f \in ScoredAt(idx, tokens, b) : Earlier(e, f)

\* C23: the index search returns exactly the documents with a positive
\* total of points, 2 for each query token that is an index token of the
\* document and 1 for each index token of the document that contains a
\* query token, each of them once, in non-increasing order of the total,
\* documents of equal total in the order they first received points.
C23_IndexSearchScores ==
    (last.op = "search" /\ HasQuery(last.options)) =>
        LET tokens == QueryTokens(last.options.query)
            ids == last.run.searchIds
        IN /\ SeqRange(ids) = {id \in IndexIds(index) : Points(index, tokens, id) > 0}
           /\ \A i, j \in 1..Len(ids) :
                  i < j =>
                      /\ ids[i] # ids[j]
                      /\ Points(index, tokens, ids[i]) >= Points(index, tokens, ids[j])
                      /\ Points(index, tokens, ids[i]) = Points(index, tokens, ids[j])
                             => FirstScoredBefore(index, tokens, ids[i], ids[j])

\* three documents are returned for the word zap after a space: the
\* document added first received points first and comes last, with fewer
\* points than the two others, which have equal points and keep the order
\* they received them in
C23_Witness ==
    /\ last.op = "search"
    /\ last.options.query = <<" ">> \o Str_zap
    /\ Len(agents) = 3
    /\ last.run.searchIds = <<agents[2].key, agents[3].key, agents[1].key>>
    /\ Points(index, <<<<>>, Str_zap>>, agents[2].key)
           = Points(index, <<<<>>, Str_zap>>, agents[3].key)
    /\ Points(index, <<<<>>, Str_zap>>, agents[3].key)
           > Points(index, <<<<>>, Str_zap>>, agents[1].key)
    /\ FirstScoredBefore(index, <<<<>>, Str_zap>>, agents[1].key, agents[2].key)


\* the words of a query: what is between its white space
QueryWords(query) == {w \in SeqRange(QueryTokens(query)) : w # <<>>}

\* the document has an index token that contains one of the words
HasTokenWith(idx, id, words) ==
    \E i \in 1..Len(idx) :
        /\ id \in SeqRange(idx[i].val)
        /\ \E w \in words : Includes(idx[i].key, w)

\* C24: for every query, white space before, after or repeated between
\* its words included, the index search returns only documents that have
\* an index token containing one of the words of the query; a query none
\* of whose words is in an index token returns the empty list.
C24_OnlyWordsMatch ==
    (last.op = "search" /\ HasQuery(last.options)) =>
        \A id \in SeqRange(last.run.searchIds) :
            HasTokenWith(index, id, QueryWords(last.options.query))


\* C25: in every state that addAgent and removeAgent calls reach, no token
\* of the index has an empty posting set, and when no agent is registered
\* the index has no token.
C25_NoEmptyPostingSet ==
    /\ \A i \in 1..Len(index) : index[i].val # <<>>
    /\ agents = <<>> => index = <<>>

\* the last of the agents was removed after an id had been added twice
\* with different objects, and the index is empty
C25_Witness ==
    /\ last.op = "removeAgent" /\ last.was /\ ncalls = 3
    /\ agents = <<>> /\ index = <<>>


\* C27: the map of the agents and the map of the documents of the index
\* have the same ids with the same metadata, and every id of a posting set
\* is a registered id.
C27_MapsAgree ==
    /\ SeqRange(MapKeys(agents)) = SeqRange(MapKeys(documents))
    /\ \A id \in SeqRange(MapKeys(agents)) : MapGet(agents, id) = MapGet(documents, id)
    /\ IndexIds(index) \subseteq SeqRange(MapKeys(agents))

\* one of two agents was removed, and the one that is left is the only id
\* of the index
C27_Witness ==
    /\ last.op = "removeAgent" /\ last.was /\ ncalls = 3
    /\ Len(agents) = 1 /\ Len(documents) = 1
    /\ IndexIds(index) = {agents[1].key}


\* the fifteen classification arrays of the specification
ClassificationArrays ==
    {"capabilities", "coding_languages", "frameworks", "tools", "technologies",
     "industries", "skills", "domains", "languages", "tags", "keywords",
     "use_cases", "dependencies", "integrations", "apis"}

\* out holds the strings of given, each once, in ascending order
DeduplicatedAndSorted(given, out) ==
    /\ out.t = "array"
    /\ SeqRange(out.items) = SeqRange(given.items)
    /\ \A i, j \in 1..Len(out.items) :
           i < j => /\ out.items[i] # out.items[j]
                    /\ PlainLeq(out.items[i].str, out.items[j].str)

\* C26: normalizeMetadata returns an object in which each of the fifteen
\* classification arrays of its input is deduplicated and sorted, and
\* applied to its own result it returns the same object again.
C26_ArraysNormalized ==
    /\ last.op = "normalizeMetadata" =>
           \A k \in ClassificationArrays \cap DOMAIN input :
               input[k].t = "array" =>
                   /\ k \in DOMAIN last.result
                   /\ DeduplicatedAndSorted(input[k], last.result[k])
    /\ last.op = "normalizeResult" => last.result = last.first


\* the searchable text of the agent itself has a token that contains one
\* of the tokens of the query
OwnTextMatches(metadata, query) ==
    \E token \in TokensOf(metadata) :
        \E q \in SeqRange(QueryTokens(query)) : Includes(token, q)

\* C28: whatever ids the agents were registered under, a search with a
\* query has before the filters exactly the registered agents whose own
\* searchable text has a token containing a token of the query, none of
\* them left out and none there because of the text of another agent.
C28_FoundByOwnText ==
    (last.op = "search" /\ HasQuery(last.options)) =>
        LET Keep(r) == OwnTextMatches(Deref(objs, r), last.options.query)
        IN last.run.matched = SelectSeq(MapValues(agents), Keep)


\* the relevance of an agent for a query: the points the index search
\* gives the id that search matches the agent by, 0 when it gives none
Relevance(idx, query, metadata) ==
    LET scores == IndexScores(idx, query)
    IN IF MapHas(scores, GetAgentId(metadata))
       THEN MapGet(scores, GetAgentId(metadata)) ELSE 0

\* C29: a search with a query and the sort field relevance has the
\* matching agents in non-increasing order of their relevance for order
\* desc and in non-decreasing order for asc.
C29_SortedByRelevance ==
    (/\ last.op = "search" /\ HasQuery(last.options)
     /\ Has(last.options, "sort") /\ last.options.sort.field = "relevance") =>
        LET list == last.run.result.agents
            Score(i) == Relevance(index, last.options.query, Deref(objs, list[i]))
        IN \A i, j \in 1..Len(list) :
               i < j => IF last.options.sort.order = "desc"
                        THEN Score(i) >= Score(j) ELSE Score(i) <= Score(j)


\* what a filter on industries, tags, author or organization asks of an
\* agent
DeclaredSatisfied(agent, filters, k) ==
    IF k \in {"industries", "tags"}
    THEN Has(agent, k) /\ SeqRange(agent[k]) \cap SeqRange(filters[k]) # {}
    ELSE Has(agent, k) /\ agent[k] = filters[k]

\* C30: a search with a filter on industries or tags returns only agents
\* whose array holds one of the listed values, and with a filter on author
\* or organization only agents whose field equals the value.
C30_DeclaredFiltersRestrict ==
    (last.op = "search" /\ Has(last.options, "filters")) =>
        \A k \in DOMAIN last.options.filters
                 \cap {"industries", "tags", "author", "organization"} :
            \A r \in SeqRange(last.run.result.agents) :
                DeclaredSatisfied(Deref(objs, r), last.options.filters, k)

====
